---------------------------- MODULE Spec2Model ----------------------------
(***************************************************************************)
(* Model of Utils::ThreadSafeQueue<T> (src/utils/ThreadSafeQueue.h) and of *)
(* the producer/consumer protocol of its unit test; of Utils::Buffer       *)
(* (src/utils/Buffer.cpp) and of the producer/consumer protocol of its     *)
(* unit test; of the lifecycle, the playlist and the volume of             *)
(* Controller::AppController; of Model::PlayerState under concurrent       *)
(* callers; of Controller::SerialManager with its read thread; of the two  *)
(* implementations of Buffer side by side; of the controller's playback    *)
(* calls with Controller::AudioPlayer and its callback; and of the mutexes *)
(* and callback members of the three controllers.                          *)
(*                                                                         *)
(* Every queue operation is a critical section of one std::mutex.  The     *)
(* model keeps the mutex, the condition variable's wait set and each       *)
(* thread's position explicit: a call first waits for the mutex, then runs *)
(* its body while holding it and releases it on return.  waitAndPop        *)
(* releases the mutex while it is suspended and has to take it again       *)
(* before it re-evaluates its predicate.                                   *)
(***************************************************************************)
EXTENDS Integers, Sequences, FiniteSets, Bags, TLC

\* Number of threads that share one queue.
NumThreads == 2
\* Total number of push calls the environment makes.
MaxPush == 2
\* Values are drawn from 1..NumValues.
NumValues == 2
\* Total number of push calls where only waitAndPop consumes.
MaxWaitPush == 2
\* ITEM_COUNT of the producer/consumer test, scaled down.
ItemCount == 2

\* Capacity in bytes of the Buffer under study.
Capacity == 3
\* Byte values are drawn from 0..NumBytes-1.
NumBytes == 2
\* Number of bytes that writes to a Buffer get accepted between two clears.
TotalBytes == 4
\* Size of the chunks the buffer test's threads write and read, scaled down.
ChunkSize == 2
\* Longest playlist the AppController's callers build.
MaxTracks == 2
\* Callers pass volumes at most this far from MIN_VOLUME and from MAX_VOLUME.
VolumeSlack == 2
\* Number of bytes the board sends over one serial connection.
MaxStream == 5

Threads == 1..NumThreads
Values == 1..NumValues

\* The one value pushed where only waitAndPop consumes.
WaitValue == CHOOSE v \in Values : TRUE

\* The int a caller's output variable holds before any pop wrote to it.
InitialValue == 0

VARIABLES
    mQueue,            \* std::queue<T> mQueue, front first
    mMutex,            \* std::mutex mMutex: NoThread, or the thread that holds it
    pc,                \* pc[t]: where thread t is inside a queue operation
    value,             \* value[t]: the variable thread t passes as T& value
    ret,               \* ret[t]: what the thread's last completed call returned
    pushed,            \* history: the values in the order their pushes took effect
    popped,            \* history: the values in the order their pops took effect
    tpc,               \* test threads: position in the test's lambdas
    prodI,             \* test producer: loop variable i
    producerFinished,  \* test: std::atomic<bool> producerFinished
    receivedData,      \* test consumer: std::vector<int> receivedData
    mBuffer,           \* Buffer: std::vector<uint8_t> mBuffer, indexed from 0
    mHead,             \* Buffer: write index
    mTail,             \* Buffer: read index
    mIsFull,           \* Buffer: full flag
    mCapacity,         \* Buffer: total size
    bufMutex,          \* Buffer: its std::mutex mMutex, NoThread or the holder
    bpc,               \* bpc[t]: where thread t is inside a Buffer operation
    bret,              \* what the Buffer call that returned last returned
    accepted,          \* history: the bytes writes accepted since the last clear
    delivered,         \* history: the bytes reads returned since the last clear
    lastMove,          \* history: the last operation that assigned a cursor
    sinceClear,        \* history: cursor-moving calls since the last clear
    btpc,              \* buffer test threads: position in the test's lambdas
    bytesSent,         \* buffer test producer: size_t bytesSent
    bProducerFinished, \* buffer test: std::atomic<bool> producerFinished
    bReceivedData,     \* buffer test consumer: std::vector<uint8_t> receivedData
    mAppState,         \* AppController: std::atomic<AppState> mAppState
    mStateCallback,    \* AppController: TRUE iff mStateCallback is not nullptr
    notified,          \* the AppState the user's callback was last called with
    audioInitialized,  \* audio player: initialize() succeeded, no shutdown() since
    audioCallback,     \* audio player: TRUE iff the controller's callback is set
    audioVolume,       \* audio player: its volume
    mVolume,           \* PlayerState: std::atomic<int> mVolume
    serialState,       \* SerialManager: std::atomic<SerialState> mState
    serialCallbacks,   \* SerialManager: TRUE iff the controller's callbacks are set
    readerPc,          \* SerialManager: where its read thread is
    mPlaylist,         \* AppController: std::vector<MediaFile> mPlaylist
    mCurrentTrackIndex, \* PlayerState: std::atomic<int> mCurrentTrackIndex
    mMuted,            \* PlayerState: std::atomic<bool> mMuted
    appPc,             \* where the client thread is inside a controller call
    volumeArg,         \* history: <<v>> if setVolume(v) stored mVolume, else <<>>
    lastCall,          \* history: the last call a client made on the controller
    mPlaybackState,    \* PlayerState: std::atomic<PlaybackState> mPlaybackState
    ppc,               \* ppc[t]: where thread t is inside a PlayerState operation
    pcur,              \* pcur[t]: the local variable current of togglePlayPause
    pret,              \* what the togglePlayPause that returned last returned
    mState,            \* SerialManager: std::atomic<SerialState> mState
    mFileDescriptor,   \* SerialManager: int mFileDescriptor
    mPortName,         \* SerialManager: std::string mPortName
    mBaudRate,         \* SerialManager: uint32_t mBaudRate
    mRunning,          \* SerialManager: std::atomic<bool> mRunning
    mReadThread,       \* SerialManager: where the thread of mReadThread is
    stateCallbackSet,  \* SerialManager: TRUE iff mStateCallback is not empty
    spc,               \* where the client is inside a SerialManager call
    connectArgs,       \* the arguments of the connect() that was called last
    openFds,           \* history: descriptors the manager opened and has not closed
    heard,             \* history: states the callback heard since the last call began
    sret,              \* what the SerialManager call that returned last returned
    lineBuffer,        \* read thread: std::string lineBuffer of readThreadFunc
    pending,           \* bytes the board has written that no ::read() returned yet
    streamRead,        \* history: the bytes ::read() returned to the thread, in order
    linesNotified,     \* history: the lines the data callback was called with
    m_buffer,          \* occupied-count Buffer: std::vector<uint8_t> m_buffer
    m_readPos,         \* occupied-count Buffer: read index
    m_writePos,        \* occupied-count Buffer: write index
    m_dataAvailable,   \* occupied-count Buffer: number of bytes held
    m_capacity,        \* occupied-count Buffer: total size
    oret,              \* what the last call on the occupied-count Buffer returned
    oDelivered,        \* history: the bytes its reads returned since the last clear
    pairPc,            \* where the caller of both Buffers is
    pairCall,          \* the call the caller of both Buffers made last
    modZero,           \* history: TRUE iff an index was taken modulo capacity 0
    audioState,        \* AudioPlayer: std::atomic<AudioState> mState
    mMusic,            \* AudioPlayer: TRUE iff mMusic is not nullptr
    audioHeard,        \* history: the states the last call gave the audio callback
    trackCall,         \* history: the last playback call made on the controller
    mRepeatMode,       \* PlayerState: std::atomic<RepeatMode> mRepeatMode
    mShuffleEnabled,   \* PlayerState: std::atomic<bool> mShuffleEnabled
    togglePc,          \* togglePc[t]: where thread t is inside a toggle
    toggleCur,         \* toggleCur[t]: the value the toggle of thread t loaded
    toggleCalls,       \* history: toggleCalls[t] is the toggles thread t has called
    callStack,         \* callStack[t]: the calls thread t is inside, innermost last
    mutexHolder,       \* mutexHolder[m]: NoThread, or the thread that holds mutex m
    callbacks          \* callbacks[c]: what is stored in the callback member c

queueVars == <<mQueue, mMutex, pc, value, ret, pushed, popped>>
testVars == <<tpc, prodI, producerFinished, receivedData>>
queueTestVars == <<queueVars, testVars>>
bufferVars == <<mBuffer, mHead, mTail, mIsFull, mCapacity, bufMutex, bpc, bret,
                accepted, delivered, lastMove, sinceClear>>
bufTestVars == <<btpc, bytesSent, bProducerFinished, bReceivedData>>
appVars == <<mAppState, mStateCallback, notified, audioInitialized,
             audioCallback, audioVolume, mVolume, serialState, serialCallbacks,
             readerPc, mPlaylist, mCurrentTrackIndex, mMuted, appPc,
             volumeArg, lastCall>>
playerVars == <<mPlaybackState, ppc, pcur, pret>>
serialVars == <<mState, mFileDescriptor, mPortName, mBaudRate, mRunning,
                mReadThread, stateCallbackSet, spc, connectArgs, openFds,
                heard, sret>>
\* Everything that came after the controller.
lineVars == <<lineBuffer, pending, streamRead, linesNotified>>
pairVars == <<m_buffer, m_readPos, m_writePos, m_dataAvailable, m_capacity,
              oret, oDelivered, pairPc, pairCall, modZero>>
\* The audio player's playback, as the controller drives it.
trackVars == <<audioState, mMusic, audioHeard, trackCall>>
\* Everything that came after the two Buffers.
\* The toggles of the PlayerState, each called once by every thread.
toggleVars == <<mRepeatMode, mShuffleEnabled, togglePc, toggleCur, toggleCalls>>
\* The mutexes and callback members of the three controllers.
lockVars == <<callStack, mutexHolder, callbacks>>
lateVars == <<trackVars, toggleVars, lockVars>>
extraVars == <<playerVars, serialVars, lineVars, pairVars, lateVars>>
\* Everything that is not the controller's.
nonAppVars == <<queueVars, testVars, bufferVars, bufTestVars, extraVars>>
\* Everything that is neither the controller's nor the player state's.
nonPlayerVars == <<queueVars, testVars, bufferVars, bufTestVars, serialVars,
                   lineVars, pairVars, lateVars>>
\* Everything that is not the serial manager's.
nonSerialVars == <<queueVars, testVars, bufferVars, bufTestVars, appVars,
                   playerVars, lineVars, pairVars, lateVars>>
\* Everything but what the read thread does with the bytes it reads.
nonLineVars == <<queueVars, testVars, bufferVars, bufTestVars, appVars,
                 playerVars, serialVars, pairVars, lateVars>>
\* Everything but the two Buffers.
nonPairVars == <<queueVars, testVars, bufTestVars, appVars, playerVars,
                 serialVars, lineVars, lateVars>>
\* What the controller has beside the fields of its PlayerState.
controllerVars == <<mAppState, mStateCallback, notified, audioInitialized,
                    audioCallback, audioVolume, serialState, serialCallbacks,
                    readerPc, mPlaylist, appPc, lastCall>>
\* Everything that is neither the queue's nor its test's.
restVars == <<bufferVars, bufTestVars, appVars, extraVars>>
\* Everything that is not the buffer's.
nonBufferVars == <<queueTestVars, appVars, extraVars>>
vars == <<mQueue, mMutex, pc, value, ret, pushed, popped,
          tpc, prodI, producerFinished, receivedData,
          mBuffer, mHead, mTail, mIsFull, mCapacity, bufMutex, bpc, bret,
          accepted, delivered, lastMove, sinceClear,
          btpc, bytesSent, bProducerFinished, bReceivedData,
          mAppState, mStateCallback, notified, audioInitialized,
          audioCallback, audioVolume, mVolume, serialState, serialCallbacks,
          readerPc, mPlaylist, mCurrentTrackIndex, mMuted, appPc,
          volumeArg, lastCall, mPlaybackState, ppc, pcur, pret,
          mState, mFileDescriptor, mPortName, mBaudRate, mRunning,
          mReadThread, stateCallbackSet, spc, connectArgs, openFds,
          heard, sret, lineBuffer, pending, streamRead, linesNotified,
          m_buffer, m_readPos, m_writePos, m_dataAvailable, m_capacity,
          oret, oDelivered, pairPc, pairCall, modZero,
          audioState, mMusic, audioHeard, trackCall,
          mRepeatMode, mShuffleEnabled, togglePc, toggleCur, toggleCalls,
          callStack, mutexHolder, callbacks>>

NoThread == 0

\* Positions in which a thread holds mMutex and runs a critical section.
CsPcs == {"push_cs", "tryPop_cs", "wap_cs", "wap_woken", "empty_cs"}
\* Positions in which a thread is blocked until it can take mMutex.
LockPcs == {"push_lock", "tryPop_lock", "wap_lock", "wap_relock", "empty_lock"}
\* Positions inside waitAndPop.
WapPcs == {"wap_lock", "wap_cs", "wap_wait", "wap_relock", "wap_woken"}

\* The threads blocked inside mCondVar.wait.
Waiting == {t \in Threads : pc[t] = "wap_wait"}

\* std::queue::front and std::queue::pop.  Both are undefined on an empty
\* queue.  The code never calls them on one (C7, C8), so no behaviour of the
\* model depends on what they are given there; they are total only so that
\* a variant of the code that does call them can be evaluated.
Front(q, dflt) == IF q = <<>> THEN dflt ELSE Head(q)
PopFront(q) == IF q = <<>> THEN <<>> ELSE Tail(q)

QueueInit ==
    /\ mQueue = <<>>
    /\ mMutex = NoThread
    /\ pc = [t \in Threads |-> "idle"]
    /\ value = [t \in Threads |-> InitialValue]
    /\ ret = [t \in Threads |-> "none"]
    /\ pushed = <<>>
    /\ popped = <<>>

TestIdle ==
    /\ tpc = [prod |-> "off", cons |-> "off"]
    /\ prodI = 0
    /\ producerFinished = FALSE
    /\ receivedData = <<>>

Bytes == 0..(NumBytes - 1)

\* Buffer::Buffer(capacityBytes): zero-filled storage, both cursors at 0,
\* not full.
BufferInit ==
    /\ mBuffer = [i \in 0..(Capacity - 1) |-> 0]
    /\ mHead = 0
    /\ mTail = 0
    /\ mIsFull = FALSE
    /\ mCapacity = Capacity
    /\ bufMutex = NoThread
    /\ bpc = [t \in Threads |-> "idle"]
    /\ bret = 0
    /\ accepted = <<>>
    /\ delivered = <<>>
    /\ lastMove = "none"
    /\ sinceClear = -1

BufTestIdle ==
    /\ btpc = [prod |-> "off", cons |-> "off"]
    /\ bytesSent = 0
    /\ bProducerFinished = FALSE
    /\ bReceivedData = <<>>

\* PlayerState's and AudioPlayer's constructors: mVolume(50).
DefaultVolume == 50

\* PlayerState::MIN_VOLUME and PlayerState::MAX_VOLUME
MIN_VOLUME == 0
MAX_VOLUME == 100

\* The history before any call.
NoCall == [op |-> "none", pre |-> "UNINITIALIZED", audio |-> "skipped",
           ret |-> "none", post |-> "UNINITIALIZED", ready |-> FALSE,
           serialPre |-> "DISCONNECTED", serialPost |-> "DISCONNECTED"]

\* AppController::AppController with an audio player, a serial manager and
\* a player state, all freshly constructed.
AppInit ==
    /\ mAppState = "UNINITIALIZED"
    /\ mStateCallback = FALSE
    /\ notified = "none"
    /\ audioInitialized = FALSE
    /\ audioCallback = FALSE
    /\ audioVolume = DefaultVolume
    /\ mVolume = DefaultVolume
    /\ serialState = "DISCONNECTED"
    /\ serialCallbacks = FALSE
    /\ readerPc = "off"
    /\ mPlaylist = <<>>
    /\ mCurrentTrackIndex = -1
    /\ mMuted = FALSE
    /\ appPc = "idle"
    /\ volumeArg = <<>>
    /\ lastCall = NoCall

\* PlayerState::PlayerState, and no thread inside one of its operations.
PlayerInit ==
    /\ mPlaybackState = "STOPPED"
    /\ ppc = [t \in Threads |-> "idle"]
    /\ pcur = [t \in Threads |-> "STOPPED"]
    /\ pret = "none"

\* The std::string that is empty.
EmptyString == ""

\* What the client's calls leave behind before the first of them returned.
\* A connect() leaves what it returned (val), whether it started a read
\* thread (started) and whether a state callback was registered (callback).
NoSerialCall == [op |-> "none"]

\* SerialManager::SerialManager, no callback set and no call made.
SerialInit ==
    /\ mState = "DISCONNECTED"
    /\ mFileDescriptor = -1
    /\ mPortName = EmptyString
    /\ mBaudRate = 0
    /\ mRunning = FALSE
    /\ mReadThread = "none"
    /\ stateCallbackSet = FALSE
    /\ spc = "idle"
    /\ connectArgs = [portName |-> EmptyString, baudRate |-> 0]
    /\ openFds = 0
    /\ heard = <<>>
    /\ sret = NoSerialCall

\* No byte was sent, read or handed on.
LineIdle ==
    /\ lineBuffer = <<>>
    /\ pending = <<>>
    /\ streamRead = <<>>
    /\ linesNotified = <<>>

\* What the caller of both Buffers leaves behind before its first call.
NoPairCall == [op |-> "none", data |-> <<>>, len |-> 0]

\* The occupied-count Buffer::Buffer(size): zero-filled storage, both
\* positions at 0, nothing held; and no call made on it.
PairIdle(size) ==
    /\ m_buffer = [i \in 0..(size - 1) |-> 0]
    /\ m_readPos = 0
    /\ m_writePos = 0
    /\ m_dataAvailable = 0
    /\ m_capacity = size
    /\ oret = 0
    /\ oDelivered = <<>>
    /\ pairPc = "idle"
    /\ pairCall = NoPairCall
    /\ modZero = FALSE

\* What the playback calls leave behind before the first of them: the call
\* (op), the index next() or previous() selected (selected, -1 if none),
\* the path handed to loadTrack (path, 0 if none), whether a load was made
\* and succeeded (loaded), and the current track index, the audio player's
\* state and its music before the call (index, before, music).
NoTrackCall == [op |-> "none", selected |-> -1, path |-> 0, loaded |-> FALSE,
                index |-> -1, before |-> "IDLE", music |-> FALSE]

\* AudioPlayer::AudioPlayer: IDLE, no music; and no playback call made.
TrackIdle ==
    /\ audioState = "IDLE"
    /\ mMusic = FALSE
    /\ audioHeard = <<>>
    /\ trackCall = NoTrackCall

\* PlayerState::PlayerState for the repeat mode and the shuffle flag, and
\* no thread has called a toggle.
ToggleIdle ==
    /\ mRepeatMode = "NONE"
    /\ mShuffleEnabled = FALSE
    /\ togglePc = [t \in Threads |-> "idle"]
    /\ toggleCur = [t \in Threads |-> FALSE]
    /\ toggleCalls = [t \in Threads |-> {}]

\* The mutexes of SerialManager, AppController and AudioPlayer.
Mutexes == {"SerialManager::mCallbackMutex", "AppController::mCallbackMutex",
            "AppController::mPlaylistMutex", "AudioPlayer::mMutex"}

\* Their callback members.
CallbackMembers == {"SerialManager::mStateCallback", "SerialManager::mDataCallback",
                    "AppController::mStateCallback", "AudioPlayer::mCallback"}

\* The three objects as constructed: no thread inside a call, every mutex
\* free, every callback member empty.
LockIdle ==
    /\ callStack = [t \in Threads |-> <<>>]
    /\ mutexHolder = [m \in Mutexes |-> NoThread]
    /\ callbacks = [c \in CallbackMembers |-> "none"]

\* What came after the two Buffers is not in use.
LateIdle == TrackIdle /\ ToggleIdle /\ LockIdle

\* What came after the controller is not in use.
ExtraIdle == PlayerInit /\ SerialInit /\ LineIdle /\ PairIdle(Capacity) /\ LateIdle

\* Nothing but the queue is in use.
RestIdle == BufferInit /\ BufTestIdle /\ AppInit /\ ExtraIdle

Init == QueueInit /\ TestIdle /\ RestIdle

(***************************************************************************)
(* Entering an operation: the caller blocks on the mutex.  What the last   *)
(* call returned is gone; the caller's variable keeps what it holds.       *)
(***************************************************************************)
Call(t, op) ==
    /\ pc[t] = "idle"
    /\ pc' = [pc EXCEPT ![t] = op]
    /\ ret' = [ret EXCEPT ![t] = "none"]
    /\ UNCHANGED <<mQueue, mMutex, value, pushed, popped>>

\* Variant: a lock that does not wait for the mutex to be free.
LockNoExclusion(t, from, to) ==
    /\ pc[t] = from
    /\ mMutex' = t
    /\ pc' = [pc EXCEPT ![t] = to]
    /\ UNCHANGED <<mQueue, value, ret, pushed, popped>>

\* std::lock_guard / std::unique_lock constructor: mMutex.lock().
Lock(t, from, to) ==
    /\ pc[t] = from
    /\ mMutex = NoThread
    /\ mMutex' = t
    /\ pc' = [pc EXCEPT ![t] = to]
    /\ UNCHANGED <<mQueue, value, ret, pushed, popped>>

CallPush(t) == Call(t, "push_lock")
CallTryPop(t) == Call(t, "tryPop_lock")
CallWaitAndPop(t) == Call(t, "wap_lock")
CallEmpty(t) == Call(t, "empty_lock")

PushLock(t) == Lock(t, "push_lock", "push_cs")
TryPopLock(t) == Lock(t, "tryPop_lock", "tryPop_cs")
WaitAndPopLock(t) == Lock(t, "wap_lock", "wap_cs")
EmptyLock(t) == Lock(t, "empty_lock", "empty_cs")

(***************************************************************************)
(* push: mQueue.push(value); mCondVar.notify_one(); the lock_guard then    *)
(* unlocks.  notify_one moves one thread of the wait set, if there is one, *)
(* out of the wait; that thread still has to take the mutex again.         *)
(***************************************************************************)
\* mCondVar.notify_one(): the thread w it wakes is any one of the wait set;
\* with an empty wait set it wakes nobody (w = NoThread).
NotifyOne(t, w) ==
    /\ w \in Waiting \cup {NoThread}
    /\ (w = NoThread) <=> (Waiting = {})
    /\ pc' = [u \in Threads |->
                IF u = t THEN "idle"
                ELSE IF u = w THEN "wap_relock" ELSE pc[u]]

\* Variant: the new value goes to the front of the queue.
PushBodyAtFront(t, v) ==
    /\ pc[t] = "push_cs"
    /\ mMutex = t
    /\ mQueue' = <<v>> \o mQueue
    /\ pushed' = Append(pushed, v)
    /\ \E w \in Threads \cup {NoThread} : NotifyOne(t, w)
    /\ mMutex' = NoThread
    /\ UNCHANGED <<value, ret, popped>>

\* Variant: push without notify_one.
PushBodyNoNotify(t, v) ==
    /\ pc[t] = "push_cs"
    /\ mMutex = t
    /\ mQueue' = Append(mQueue, v)
    /\ pushed' = Append(pushed, v)
    /\ pc' = [pc EXCEPT ![t] = "idle"]
    /\ mMutex' = NoThread
    /\ UNCHANGED <<value, ret, popped>>

PushBody(t, v) ==
    /\ pc[t] = "push_cs"
    /\ mMutex = t
    /\ mQueue' = Append(mQueue, v)
    /\ pushed' = Append(pushed, v)
    /\ \E w \in Threads \cup {NoThread} : NotifyOne(t, w)
    /\ mMutex' = NoThread
    /\ UNCHANGED <<value, ret, popped>>

(***************************************************************************)
(* tryPop: false on an empty queue, otherwise move the front out.          *)
(***************************************************************************)
\* Variant: the front is copied out but mQueue.pop() is missing.
TryPopBodyKeepsFront(t) ==
    /\ pc[t] = "tryPop_cs"
    /\ mMutex = t
    /\ IF mQueue = <<>>
       THEN /\ ret' = [ret EXCEPT ![t] = "false"]
            /\ UNCHANGED <<mQueue, value, popped>>
       ELSE /\ value' = [value EXCEPT ![t] = Front(mQueue, value[t])]
            /\ popped' = Append(popped, Front(mQueue, value[t]))
            /\ mQueue' = mQueue
            /\ ret' = [ret EXCEPT ![t] = "true"]
    /\ pc' = [pc EXCEPT ![t] = "idle"]
    /\ mMutex' = NoThread
    /\ UNCHANGED pushed

\* Variant: a failed tryPop resets the caller's variable.
TryPopBodyClobbers(t) ==
    /\ pc[t] = "tryPop_cs"
    /\ mMutex = t
    /\ IF mQueue = <<>>
       THEN /\ ret' = [ret EXCEPT ![t] = "false"]
            /\ value' = [value EXCEPT ![t] = InitialValue]
            /\ UNCHANGED <<mQueue, popped>>
       ELSE /\ value' = [value EXCEPT ![t] = Front(mQueue, value[t])]
            /\ popped' = Append(popped, Front(mQueue, value[t]))
            /\ mQueue' = PopFront(mQueue)
            /\ ret' = [ret EXCEPT ![t] = "true"]
    /\ pc' = [pc EXCEPT ![t] = "idle"]
    /\ mMutex' = NoThread
    /\ UNCHANGED pushed

TryPopBody(t) ==
    /\ pc[t] = "tryPop_cs"
    /\ mMutex = t
    /\ IF mQueue = <<>>
       THEN /\ ret' = [ret EXCEPT ![t] = "false"]
            /\ UNCHANGED <<mQueue, value, popped>>
       ELSE /\ value' = [value EXCEPT ![t] = Front(mQueue, value[t])]
            /\ popped' = Append(popped, Front(mQueue, value[t]))
            /\ mQueue' = PopFront(mQueue)
            /\ ret' = [ret EXCEPT ![t] = "true"]
    /\ pc' = [pc EXCEPT ![t] = "idle"]
    /\ mMutex' = NoThread
    /\ UNCHANGED pushed

(***************************************************************************)
(* waitAndPop: mCondVar.wait(lock, pred) is while (!pred()) wait(lock).    *)
(* With the mutex held the predicate is evaluated; if the queue is empty   *)
(* the thread releases the mutex and joins the wait set in one step,       *)
(* otherwise it moves the front out and returns.                           *)
(***************************************************************************)
\* Variant: the waiter keeps the mutex while it is suspended.
WaitLoopKeepsLock(t) ==
    /\ mMutex = t
    /\ IF mQueue = <<>>
       THEN /\ pc' = [pc EXCEPT ![t] = "wap_wait"]
            /\ mMutex' = t
            /\ UNCHANGED <<mQueue, value, popped>>
       ELSE /\ value' = [value EXCEPT ![t] = Front(mQueue, value[t])]
            /\ popped' = Append(popped, Front(mQueue, value[t]))
            /\ mQueue' = PopFront(mQueue)
            /\ pc' = [pc EXCEPT ![t] = "idle"]
            /\ mMutex' = NoThread
    /\ UNCHANGED <<ret, pushed>>

\* One turn of the wait loop, with the mutex held, and what follows it.
WaitLoop(t) ==
    /\ mMutex = t
    /\ IF mQueue = <<>>
       THEN /\ pc' = [pc EXCEPT ![t] = "wap_wait"]
            /\ UNCHANGED <<mQueue, value, popped>>
       ELSE /\ value' = [value EXCEPT ![t] = Front(mQueue, value[t])]
            /\ popped' = Append(popped, Front(mQueue, value[t]))
            /\ mQueue' = PopFront(mQueue)
            /\ pc' = [pc EXCEPT ![t] = "idle"]
    /\ mMutex' = NoThread
    /\ UNCHANGED <<ret, pushed>>

\* Variant: on an empty queue the call gives up and returns.
WaitAndPopBodyGivesUp(t) ==
    /\ pc[t] = "wap_cs"
    /\ mMutex = t
    /\ IF mQueue = <<>>
       THEN UNCHANGED <<mQueue, value, popped>>
       ELSE /\ value' = [value EXCEPT ![t] = Front(mQueue, value[t])]
            /\ popped' = Append(popped, Front(mQueue, value[t]))
            /\ mQueue' = PopFront(mQueue)
    /\ pc' = [pc EXCEPT ![t] = "idle"]
    /\ mMutex' = NoThread
    /\ UNCHANGED <<ret, pushed>>

\* The first evaluation of the predicate, right after the lock was taken.
WaitAndPopBody(t) ==
    /\ pc[t] = "wap_cs"
    /\ WaitLoop(t)

\* A condition variable may wake a waiter that nobody notified.
SpuriousWakeup(t) ==
    /\ pc[t] = "wap_wait"
    /\ pc' = [pc EXCEPT ![t] = "wap_relock"]
    /\ UNCHANGED <<mQueue, mMutex, value, ret, pushed, popped>>

\* A woken waiter takes the mutex again before wait(lock) returns.
WaitAndPopRelock(t) == Lock(t, "wap_relock", "wap_woken")

\* Variant: wait(lock) without the predicate: one wakeup is taken to mean
\* that a value is there.
WaitAndPopRecheckOnce(t) ==
    /\ pc[t] = "wap_woken"
    /\ mMutex = t
    /\ value' = [value EXCEPT ![t] = Front(mQueue, value[t])]
    /\ popped' = Append(popped, Front(mQueue, value[t]))
    /\ mQueue' = PopFront(mQueue)
    /\ pc' = [pc EXCEPT ![t] = "idle"]
    /\ mMutex' = NoThread
    /\ UNCHANGED <<ret, pushed>>

\* The predicate is evaluated again after every wakeup.
WaitAndPopRecheck(t) ==
    /\ pc[t] = "wap_woken"
    /\ WaitLoop(t)

(***************************************************************************)
(* empty: mQueue.empty() under the lock.                                   *)
(***************************************************************************)
\* Variant: the answer is the wrong way round.
EmptyBodyInverted(t) ==
    /\ pc[t] = "empty_cs"
    /\ mMutex = t
    /\ ret' = [ret EXCEPT ![t] = IF mQueue = <<>> THEN "false" ELSE "true"]
    /\ pc' = [pc EXCEPT ![t] = "idle"]
    /\ mMutex' = NoThread
    /\ UNCHANGED <<mQueue, value, pushed, popped>>

EmptyBody(t) ==
    /\ pc[t] = "empty_cs"
    /\ mMutex = t
    /\ ret' = [ret EXCEPT ![t] = IF mQueue = <<>> THEN "true" ELSE "false"]
    /\ pc' = [pc EXCEPT ![t] = "idle"]
    /\ mMutex' = NoThread
    /\ UNCHANGED <<mQueue, value, pushed, popped>>

\* Pushes that were called: those that took effect and those still under way.
PushesStarted ==
    Len(pushed) + Cardinality({t \in Threads : pc[t] \in {"push_lock", "push_cs"}})

Next ==
    \E t \in Threads :
        \/ PushesStarted < MaxPush /\ CallPush(t) /\ UNCHANGED <<testVars, restVars>>
        \/ CallTryPop(t) /\ UNCHANGED <<testVars, restVars>>
        \/ CallWaitAndPop(t) /\ UNCHANGED <<testVars, restVars>>
        \/ CallEmpty(t) /\ UNCHANGED <<testVars, restVars>>
        \/ PushLock(t) /\ UNCHANGED <<testVars, restVars>>
        \/ TryPopLock(t) /\ UNCHANGED <<testVars, restVars>>
        \/ WaitAndPopLock(t) /\ UNCHANGED <<testVars, restVars>>
        \/ EmptyLock(t) /\ UNCHANGED <<testVars, restVars>>
        \/ \E v \in Values : PushBody(t, v) /\ UNCHANGED <<testVars, restVars>>
        \/ TryPopBody(t) /\ UNCHANGED <<testVars, restVars>>
        \/ WaitAndPopBody(t) /\ UNCHANGED <<testVars, restVars>>
        \/ SpuriousWakeup(t) /\ UNCHANGED <<testVars, restVars>>
        \/ WaitAndPopRelock(t) /\ UNCHANGED <<testVars, restVars>>
        \/ WaitAndPopRecheck(t) /\ UNCHANGED <<testVars, restVars>>
        \/ EmptyBody(t) /\ UNCHANGED <<testVars, restVars>>

Spec == Init /\ [][Next]_vars

(***************************************************************************)
(* Scheduling.  A thread that can run gets to run, and a thread blocked on *)
(* the mutex gets it at some point when it is free again and again.  No    *)
(* new call and no spurious wakeup is ever bound to happen.                *)
(***************************************************************************)
WaitFairness ==
    \A t \in Threads :
        /\ SF_queueVars(PushLock(t))
        /\ WF_queueVars(PushBody(t, WaitValue))
        /\ SF_queueVars(WaitAndPopLock(t))
        /\ WF_queueVars(WaitAndPopBody(t))
        /\ SF_queueVars(WaitAndPopRelock(t))
        /\ WF_queueVars(WaitAndPopRecheck(t))

(***************************************************************************)
(* Consumers that only use waitAndPop: the queue with push and waitAndPop  *)
(* callers and nobody else who removes values.  Liveness does not depend   *)
(* on which values travel, so they are all WaitValue here.                 *)
(***************************************************************************)
WaitNext ==
    \E t \in Threads :
        \/ PushesStarted < MaxWaitPush /\ CallPush(t) /\ UNCHANGED <<testVars, restVars>>
        \/ CallWaitAndPop(t) /\ UNCHANGED <<testVars, restVars>>
        \/ PushLock(t) /\ UNCHANGED <<testVars, restVars>>
        \/ WaitAndPopLock(t) /\ UNCHANGED <<testVars, restVars>>
        \/ PushBody(t, WaitValue) /\ UNCHANGED <<testVars, restVars>>
        \/ WaitAndPopBody(t) /\ UNCHANGED <<testVars, restVars>>
        \/ SpuriousWakeup(t) /\ UNCHANGED <<testVars, restVars>>
        \/ WaitAndPopRelock(t) /\ UNCHANGED <<testVars, restVars>>
        \/ WaitAndPopRecheck(t) /\ UNCHANGED <<testVars, restVars>>

WaitSpec == Init /\ [][WaitNext]_vars /\ WaitFairness

(***************************************************************************)
(* TEST(ThreadSafeQueueTest, ConcurrencyPushPop): one producer thread and  *)
(* one consumer thread on one queue.                                       *)
(***************************************************************************)
Producer == 1
Consumer == 2

TestInit ==
    /\ QueueInit
    /\ RestIdle
    /\ tpc = [prod |-> "loop", cons |-> "loop"]
    /\ prodI = 0
    /\ producerFinished = FALSE
    /\ receivedData = <<>>

\* for (int i = 0; i < ITEM_COUNT; ++i) { queue.push(i); ... }
ProducerCallPush ==
    /\ tpc.prod = "loop"
    /\ prodI < ItemCount
    /\ CallPush(Producer)
    /\ tpc' = [tpc EXCEPT !.prod = "push"]
    /\ UNCHANGED <<prodI, producerFinished, receivedData>>

\* push returned: ++i.  The yield that follows changes no state.
ProducerNext ==
    /\ tpc.prod = "push"
    /\ pc[Producer] = "idle"
    /\ prodI' = prodI + 1
    /\ tpc' = [tpc EXCEPT !.prod = "loop"]
    /\ UNCHANGED <<producerFinished, receivedData>>
    /\ UNCHANGED queueVars

\* The loop ends: producerFinished = true.
ProducerFinish ==
    /\ tpc.prod = "loop"
    /\ prodI >= ItemCount
    /\ producerFinished' = TRUE
    /\ tpc' = [tpc EXCEPT !.prod = "done"]
    /\ UNCHANGED <<prodI, receivedData>>
    /\ UNCHANGED queueVars

\* while (true) { queue.waitAndPop(val); ...
ConsumerCallWaitAndPop ==
    /\ tpc.cons = "loop"
    /\ CallWaitAndPop(Consumer)
    /\ tpc' = [tpc EXCEPT !.cons = "pop"]
    /\ UNCHANGED <<prodI, producerFinished, receivedData>>

\* receivedData.push_back(val);
ConsumerRecord ==
    /\ tpc.cons = "pop"
    /\ pc[Consumer] = "idle"
    /\ receivedData' = Append(receivedData, value[Consumer])
    /\ tpc' = [tpc EXCEPT !.cons = "check"]
    /\ UNCHANGED <<prodI, producerFinished>>
    /\ UNCHANGED queueVars

\* if (producerFinished && queue.empty()): the left operand is read first and
\* queue.empty() is called only when it is true.
ConsumerCheckFinished ==
    /\ tpc.cons = "check"
    /\ IF producerFinished
       THEN /\ CallEmpty(Consumer)
            /\ tpc' = [tpc EXCEPT !.cons = "empty"]
       ELSE /\ tpc' = [tpc EXCEPT !.cons = "loop"]
            /\ UNCHANGED queueVars
    /\ UNCHANGED <<prodI, producerFinished, receivedData>>

\* empty() returned: break if it was true, else go round again.
ConsumerCheckEmpty ==
    /\ tpc.cons = "empty"
    /\ pc[Consumer] = "idle"
    /\ tpc' = [tpc EXCEPT !.cons = IF ret[Consumer] = "true" THEN "done" ELSE "loop"]
    /\ UNCHANGED <<prodI, producerFinished, receivedData>>
    /\ UNCHANGED queueVars

TestNext ==
    \/ ProducerCallPush /\ UNCHANGED restVars
    \/ PushLock(Producer) /\ UNCHANGED <<testVars, restVars>>
    \/ PushBody(Producer, prodI) /\ UNCHANGED <<testVars, restVars>>
    \/ ProducerNext /\ UNCHANGED restVars
    \/ ProducerFinish /\ UNCHANGED restVars
    \/ ConsumerCallWaitAndPop /\ UNCHANGED restVars
    \/ WaitAndPopLock(Consumer) /\ UNCHANGED <<testVars, restVars>>
    \/ WaitAndPopBody(Consumer) /\ UNCHANGED <<testVars, restVars>>
    \/ SpuriousWakeup(Consumer) /\ UNCHANGED <<testVars, restVars>>
    \/ WaitAndPopRelock(Consumer) /\ UNCHANGED <<testVars, restVars>>
    \/ WaitAndPopRecheck(Consumer) /\ UNCHANGED <<testVars, restVars>>
    \/ ConsumerRecord /\ UNCHANGED restVars
    \/ ConsumerCheckFinished /\ UNCHANGED restVars
    \/ EmptyLock(Consumer) /\ UNCHANGED <<testVars, restVars>>
    \/ EmptyBody(Consumer) /\ UNCHANGED <<testVars, restVars>>
    \/ ConsumerCheckEmpty /\ UNCHANGED restVars

\* Both test threads are scheduled fairly; only a spurious wakeup need not
\* ever happen.
TestFairness ==
    /\ WF_queueTestVars(ProducerCallPush) /\ WF_queueTestVars(ProducerNext)
    /\ WF_queueTestVars(ProducerFinish)
    /\ WF_queueTestVars(ConsumerCallWaitAndPop) /\ WF_queueTestVars(ConsumerRecord)
    /\ WF_queueTestVars(ConsumerCheckFinished) /\ WF_queueTestVars(ConsumerCheckEmpty)
    /\ SF_queueVars(PushLock(Producer))
    /\ WF_queueVars(PushBody(Producer, prodI))
    /\ SF_queueVars(WaitAndPopLock(Consumer))
    /\ WF_queueVars(WaitAndPopBody(Consumer))
    /\ SF_queueVars(WaitAndPopRelock(Consumer))
    /\ WF_queueVars(WaitAndPopRecheck(Consumer))
    /\ SF_queueVars(EmptyLock(Consumer))
    /\ WF_queueVars(EmptyBody(Consumer))

TestSpec == TestInit /\ [][TestNext]_vars /\ TestFairness

(***************************************************************************)
(* Properties of the queue.                                                *)
(***************************************************************************)
\* The multiset of the elements of a sequence.
SeqToBag(s) ==
    [v \in {s[i] : i \in DOMAIN s} |-> Cardinality({i \in DOMAIN s : s[i] = v})]

\* Positions in which a thread is about to take a value out, mutex held.
PopCs == {"tryPop_cs", "wap_cs", "wap_woken"}

\* mMutex is held exactly by the one thread that runs a critical section.
MutualExclusion ==
    /\ Cardinality({t \in Threads : pc[t] \in CsPcs}) <= 1
    /\ \A t \in Threads : (pc[t] \in CsPcs) <=> (mMutex = t)

\* C1: under every interleaving of push, tryPop and waitAndPop callers, the
\* values pushed so far are, as a multiset, the values popped so far plus
\* the values still in the queue: nothing is dropped, nothing is handed out
\* twice, and no more pops than pushes have taken effect.
C1_NoLossNoDuplication ==
    /\ SeqToBag(pushed) = SeqToBag(popped) (+) SeqToBag(mQueue)
    /\ Len(pushed) = Len(popped) + Len(mQueue)

\* The same value was pushed twice; one copy was popped and one is still
\* queued, while one consumer is blocked on the mutex and another was just
\* woken.
C1_Witness ==
    /\ pushed = <<1, 1>>
    /\ popped = <<1>>
    /\ mQueue = <<1>>
    /\ \E t, u \in Threads : pc[t] = "tryPop_lock" /\ pc[u] = "wap_relock"

\* C2: the queue is first in, first out over all producers: the values
\* popped so far, followed by the values still queued, are the values in
\* the order in which their pushes took effect under the lock.
C2_Fifo == popped \o mQueue = pushed

\* push(1), push(2) and the pops that returned 1 and then 2, the last one
\* into the variable of a thread that is idle again.
C2_Witness ==
    /\ pushed = <<1, 2>>
    /\ popped = <<1, 2>>
    /\ mQueue = <<>>
    /\ \E t \in Threads : pc[t] = "idle" /\ value[t] = 2

\* The waitAndPop calls made so far: those that returned and those under way.
WapCalls == Len(popped) + Cardinality({t \in Threads : pc[t] \in WapPcs})

Min(a, b) == IF a <= b THEN a ELSE b

C4_ReturnsOnlyAfterPush ==
    [][\A t \in Threads :
          /\ (pc[t] \in WapPcs /\ pc'[t] \notin WapPcs) =>
                /\ pc'[t] = "idle"
                /\ mQueue # <<>>
                /\ Len(pushed) > Len(popped)
                /\ value'[t] = Head(mQueue)
                /\ \E i \in DOMAIN pushed : pushed[i] = value'[t]
          /\ (pc[t] \in WapPcs /\ pushed' = <<>>) => pc'[t] \in WapPcs]_vars

\* A thread that was suspended on the empty queue holds the mutex again
\* after the one push, and is about to return the value.
C4_Witness ==
    \E t \in Threads :
        /\ pc[t] = "wap_woken"
        /\ Len(pushed) = 1
        /\ mQueue = pushed

\* C5: in the producer/consumer test both threads terminate under a fair
\* scheduler, and the consumer has then received 0 .. ItemCount-1 in order.
C5_TestTerminates ==
    <>(/\ tpc.prod = "done"
       /\ tpc.cons = "done"
       /\ receivedData = [i \in 1..ItemCount |-> i - 1])

\* C6: consumers that pop at about the same time never share a value.  At
\* most one thread, the holder of the mutex, is inside a critical section;
\* a step that takes a value
\* out takes the front, removes exactly it and hands it to exactly one
\* thread; and a consumer that finds the queue empty, the value having gone
\* to the other one, reports false (tryPop) or is suspended (waitAndPop)
\* without receiving anything.
C6_Receives(t) ==
    /\ pc[t] \in PopCs
    /\ pc'[t] = "idle"
    /\ value'[t] = Head(mQueue)
    /\ (pc[t] = "tryPop_cs") => (ret'[t] = "true")

C6_OneReceiver ==
    /\ []MutualExclusion
    /\ [][/\ (popped' # popped) =>
               /\ mQueue # <<>>
               /\ mQueue' = Tail(mQueue)
               /\ popped' = Append(popped, Head(mQueue))
               /\ Cardinality({t \in Threads : C6_Receives(t)}) = 1
               /\ \A u \in Threads :
                     ~C6_Receives(u) => (value'[u] = value[u] /\ ret'[u] = ret[u])
          /\ \A u \in Threads :
                (pc[u] \in PopCs /\ mQueue = <<>> /\ pc'[u] # pc[u]) =>
                   /\ popped' = popped
                   /\ value'[u] = value[u]
                   /\ IF pc[u] = "tryPop_cs"
                      THEN pc'[u] = "idle" /\ ret'[u] = "false"
                      ELSE pc'[u] = "wap_wait"]_vars

\* One value was pushed; one thread came back from tryPop with it, and a
\* second one, inside tryPop with the mutex, finds the queue empty.
C6_Witness ==
    /\ Len(pushed) = 1
    /\ popped = pushed
    /\ mQueue = <<>>
    /\ \E t, u \in Threads :
          /\ pc[t] = "idle" /\ ret[t] = "true" /\ value[t] = pushed[1]
          /\ pc[u] = "tryPop_cs" /\ value[u] = InitialValue

\* C7: waitAndPop never takes a value out of an empty queue.  Whenever it
\* evaluates its predicate, at the start or after a wakeup of any kind, it
\* holds the mutex; on an empty queue it goes (back) to waiting and changes
\* nothing, on a non-empty queue it takes the front.
C7_RechecksAfterWakeup ==
    [][\A t \in Threads :
          (pc[t] \in {"wap_cs", "wap_woken"} /\ pc'[t] # pc[t]) =>
             /\ mMutex = t
             /\ IF mQueue = <<>>
                THEN /\ pc'[t] = "wap_wait"
                     /\ mQueue' = <<>>
                     /\ popped' = popped
                     /\ value' = value
                ELSE /\ pc'[t] = "idle"
                     /\ mQueue' = Tail(mQueue)
                     /\ value'[t] = Head(mQueue)]_vars

\* A woken waiter holds the mutex and finds the queue empty, the value that
\* was pushed having gone to another consumer.
C7_Witness ==
    \E t \in Threads :
        /\ pc[t] = "wap_woken"
        /\ mQueue = <<>>
        /\ Len(popped) >= 1

\* C8: tryPop on an empty queue returns false, does not suspend the caller
\* and leaves the queue and the caller's variable as they were; on a
\* non-empty queue it returns true with the front value and removes exactly
\* that value.
C8_TryPop ==
    [][\A t \in Threads :
          (pc[t] = "tryPop_cs" /\ pc'[t] # pc[t]) =>
             /\ pc'[t] = "idle"
             /\ IF mQueue = <<>>
                THEN /\ ret'[t] = "false"
                     /\ mQueue' = mQueue
                     /\ popped' = popped
                     /\ value'[t] = value[t]
                ELSE /\ ret'[t] = "true"
                     /\ value'[t] = Head(mQueue)
                     /\ mQueue' = Tail(mQueue)
                     /\ popped' = Append(popped, Head(mQueue))]_vars

\* A thread whose variable holds a value from an earlier pop is inside
\* tryPop on the empty queue.
C8_Witness ==
    \E t \in Threads :
        /\ pc[t] = "tryPop_cs"
        /\ mQueue = <<>>
        /\ value[t] \in Values

\* The step with which thread u, holding the mutex, ends its critical
\* section and gives the mutex back.
CsStep(u) ==
    /\ UNCHANGED testVars
    /\ \/ \E v \in Values : PushBody(u, v)
       \/ TryPopBody(u)
       \/ WaitAndPopBody(u)
       \/ WaitAndPopRecheck(u)
       \/ EmptyBody(u)

\* The step with which thread t, blocked on the mutex, takes it.
LockStep(t) ==
    /\ UNCHANGED testVars
    /\ \/ PushLock(t)
       \/ TryPopLock(t)
       \/ WaitAndPopLock(t)
       \/ WaitAndPopRelock(t)
       \/ EmptyLock(t)

\* C9: a thread suspended in waitAndPop does not hold the mutex.  The mutex
\* is only ever held by a thread that is running a critical section and
\* can finish it on its own, so a thread that calls push, tryPop or empty
\* can either take the mutex at once or will find it free after the
\* holder's next step, however many threads are suspended.
C9_WaitersReleaseLock ==
    /\ \A t \in Waiting : mMutex # t
    /\ \A t \in Threads :
          pc[t] \in LockPcs =>
             \/ ENABLED LockStep(t)
             \/ \E u \in Threads \ Waiting :
                   mMutex = u /\ pc[u] \in CsPcs /\ ENABLED CsStep(u)

\* Every other thread is suspended and one thread, calling push, finds the
\* mutex free.
C9_Witness ==
    /\ Cardinality(Waiting) = NumThreads - 1
    /\ mMutex = NoThread
    /\ \E t \in Threads : pc[t] = "push_lock"

\* C10: the queue holds no value exactly when as many pops as pushes have
\* taken effect, and empty() returns true exactly in that case, as of the
\* moment it holds the lock; it changes nothing.
C10_Empty ==
    /\ []((mQueue = <<>>) <=> (Len(pushed) = Len(popped)))
    /\ [][\A t \in Threads :
            (pc[t] = "empty_cs" /\ pc'[t] # pc[t]) =>
               /\ pc'[t] = "idle"
               /\ ret'[t] = (IF Len(pushed) = Len(popped) THEN "true" ELSE "false")
               /\ UNCHANGED <<mQueue, pushed, popped, value>>]_vars

\* empty() holds the lock on a queue that was filled and drained again.
C10_Witness ==
    \E t \in Threads :
        /\ pc[t] = "empty_cs"
        /\ Len(pushed) >= 2
        /\ Len(popped) = Len(pushed)

(***************************************************************************)
(* Utils::Buffer, the version with a full flag (src/utils/Buffer.cpp).     *)
(*                                                                         *)
(* Every operation is the critical section of a std::lock_guard on the     *)
(* buffer's mutex: a thread takes the mutex, runs the body and gives the   *)
(* mutex back when it returns.  A thread that called an operation while    *)
(* the mutex is held stays where it is until it can take it.               *)
(***************************************************************************)

\* The positions in which a thread holds the buffer's mutex.
BufCsPcs == {"write_cs", "read_cs", "clear_cs", "available_cs", "capacity_cs"}

\* The longest span a caller passes: one byte more than fits.
MaxLen == Capacity + 1

\* The byte strings of at most n bytes.
Chunks(n) == UNION {[1..k -> Bytes] : k \in 0..n}

\* Buffer::getAvailableInternal, without the branch on the cursors' order.
GetAvailableNoBranch ==
    IF mIsFull THEN mCapacity ELSE mCapacity - mTail + mHead

\* Buffer::getAvailableInternal
getAvailableInternal ==
    IF mIsFull THEN mCapacity
    ELSE IF mHead >= mTail THEN mHead - mTail
    ELSE mCapacity - mTail + mHead

\* What available() and capacity() return when called in this state.
available == getAvailableInternal
capacity == mCapacity

\* Buffer::isEmptyInternal and Buffer::isFullInternal
isEmptyInternal == ~mIsFull /\ mHead = mTail
isFullInternal == mIsFull

\* The write loop that stores every byte at the index it started from and
\* moves the write index only once.
WriteLoopKeepsHead(buf, head, data, i, toWrite) ==
    IF toWrite = 0 THEN <<buf, head>>
    ELSE <<[buf EXCEPT ![head] = data[toWrite]], (head + toWrite) % mCapacity>>

\* The write loop that moves the write index without the modulo.
WriteLoopNoModulo(buf, head, data, i, toWrite) ==
    <<[k \in DOMAIN buf |->
          IF \E j \in 1..toWrite : (head + j - 1) % mCapacity = k
              THEN data[CHOOSE j \in 1..toWrite : (head + j - 1) % mCapacity = k]
              ELSE buf[k]],
      head + toWrite>>

\* for (i = 0; i < toWrite; ++i) { mBuffer[mHead] = data[i]; mHead = ... }
\* from iteration i on: the storage and the write index it ends with.
RECURSIVE WriteLoop(_, _, _, _, _)
WriteLoop(buf, head, data, i, toWrite) ==
    IF i >= toWrite THEN <<buf, head>>
    ELSE WriteLoop([buf EXCEPT ![head] = data[i + 1]],
                   (head + 1) % mCapacity, data, i + 1, toWrite)

\* for (i = 0; i < toRead; ++i) { dest[i] = mBuffer[mTail]; mTail = ... }
\* from iteration i on: the bytes in dest and the read index it ends with.
RECURSIVE ReadLoop(_, _, _, _)
ReadLoop(dest, tail, i, toRead) ==
    IF i >= toRead THEN <<dest, tail>>
    ELSE ReadLoop(Append(dest, mBuffer[tail]), (tail + 1) % mCapacity,
                  i + 1, toRead)

\* One more cursor-moving call since the last clear, if there was a clear.
Moved == IF sinceClear = -1 THEN -1 ELSE Min(sinceClear + 1, 2)

\* A lock_guard that does not wait for the mutex to be free.
BufLockNoWait(t, op) ==
    /\ bpc[t] = "idle"
    /\ bufMutex' = t
    /\ bpc' = [bpc EXCEPT ![t] = op]
    /\ UNCHANGED <<mBuffer, mHead, mTail, mIsFull, mCapacity, bret,
                   accepted, delivered, lastMove, sinceClear>>

\* std::lock_guard<std::mutex> lock(mMutex) at the head of operation op.
BufLock(t, op) ==
    /\ bpc[t] = "idle"
    /\ bufMutex = NoThread
    /\ bufMutex' = t
    /\ bpc' = [bpc EXCEPT ![t] = op]
    /\ UNCHANGED <<mBuffer, mHead, mTail, mIsFull, mCapacity, bret,
                   accepted, delivered, lastMove, sinceClear>>

WriteLock(t) == BufLock(t, "write_cs")
ReadLock(t) == BufLock(t, "read_cs")
ClearLock(t) == BufLock(t, "clear_cs")
AvailableLock(t) == BufLock(t, "available_cs")
CapacityLock(t) == BufLock(t, "capacity_cs")

\* The return of an operation: the lock_guard gives the mutex back.
BufUnlock(t) ==
    /\ bufMutex' = NoThread
    /\ bpc' = [bpc EXCEPT ![t] = "idle"]

\* What write(data, len) does to the buffer once it has decided to store the
\* first toWrite bytes of data.
Store(t, data, toWrite) ==
    LET loop == WriteLoop(mBuffer, mHead, data, 0, toWrite) IN
        /\ mBuffer' = loop[1]
        /\ mHead' = loop[2]
        /\ mIsFull' = IF loop[2] = mTail /\ toWrite > 0 THEN TRUE ELSE mIsFull
        /\ bret' = toWrite
        /\ accepted' = accepted \o SubSeq(data, 1, toWrite)
        /\ lastMove' = "write"
        /\ sinceClear' = Moved
        /\ BufUnlock(t)
        /\ UNCHANGED <<mTail, mCapacity, delivered>>

\* A call that returns 0 before it touched anything.
ReturnZero(t) ==
    /\ bret' = 0
    /\ BufUnlock(t)
    /\ UNCHANGED <<mBuffer, mHead, mTail, mIsFull, mCapacity,
                   accepted, delivered, lastMove, sinceClear>>

\* write that stores all it is given, whatever room there is.
WriteBodyAll(t, data) ==
    /\ bpc[t] = "write_cs"
    /\ IF Len(data) = 0 THEN ReturnZero(t) ELSE Store(t, data, Len(data))

\* write that never raises the full flag.
WriteBodyNoFullFlag(t, data) ==
    /\ bpc[t] = "write_cs"
    /\ LET toWrite == Min(Len(data), mCapacity - getAvailableInternal)
           loop == WriteLoop(mBuffer, mHead, data, 0, toWrite) IN
        IF toWrite = 0 THEN ReturnZero(t)
        ELSE /\ mBuffer' = loop[1]
             /\ mHead' = loop[2]
             /\ bret' = toWrite
             /\ accepted' = accepted \o SubSeq(data, 1, toWrite)
             /\ lastMove' = "write"
             /\ sinceClear' = Moved
             /\ BufUnlock(t)
             /\ UNCHANGED <<mTail, mIsFull, mCapacity, delivered>>

\* size_t Buffer::write(const uint8_t* data, size_t len), with len the
\* length of data.
WriteBody(t, data) ==
    /\ bpc[t] = "write_cs"
    /\ LET freeSpace == mCapacity - getAvailableInternal
           toWrite == Min(Len(data), freeSpace) IN
        IF toWrite = 0 THEN ReturnZero(t) ELSE Store(t, data, toWrite)

\* What read(dest, len) does to the buffer once it has decided to copy
\* toRead bytes; full is the full flag it leaves.
Fetch(t, toRead, full) ==
    LET loop == ReadLoop(<<>>, mTail, 0, toRead) IN
        /\ mTail' = loop[2]
        /\ mIsFull' = full
        /\ bret' = toRead
        /\ delivered' = delivered \o loop[1]
        /\ lastMove' = "read"
        /\ sinceClear' = Moved
        /\ BufUnlock(t)
        /\ UNCHANGED <<mBuffer, mHead, mCapacity, accepted>>

\* read that copies len bytes, whatever is held.
ReadBodyAll(t, len) ==
    /\ bpc[t] = "read_cs"
    /\ IF len = 0 THEN ReturnZero(t) ELSE Fetch(t, len, FALSE)

\* read that leaves the full flag as it found it.
ReadBodyKeepsFull(t, len) ==
    /\ bpc[t] = "read_cs"
    /\ LET toRead == Min(len, getAvailableInternal) IN
        IF toRead = 0 THEN ReturnZero(t) ELSE Fetch(t, toRead, mIsFull)

\* read that clears the full flag before it looks at toRead.
ReadBodyClearsFullFirst(t, len) ==
    /\ bpc[t] = "read_cs"
    /\ LET toRead == Min(len, getAvailableInternal) IN
        IF toRead = 0
            THEN /\ mIsFull' = FALSE
                 /\ bret' = 0
                 /\ BufUnlock(t)
                 /\ UNCHANGED <<mBuffer, mHead, mTail, mCapacity, accepted,
                                delivered, lastMove, sinceClear>>
            ELSE Fetch(t, toRead, FALSE)

\* size_t Buffer::read(uint8_t* dest, size_t len)
ReadBody(t, len) ==
    /\ bpc[t] = "read_cs"
    /\ LET avail == getAvailableInternal
           toRead == Min(len, avail) IN
        IF toRead = 0 THEN ReturnZero(t) ELSE Fetch(t, toRead, FALSE)

\* clear that resets the cursors and leaves the full flag alone.
ClearBodyKeepsFull(t) ==
    /\ bpc[t] = "clear_cs"
    /\ mHead' = 0
    /\ mTail' = 0
    /\ accepted' = <<>>
    /\ delivered' = <<>>
    /\ lastMove' = "clear"
    /\ sinceClear' = 0
    /\ BufUnlock(t)
    /\ UNCHANGED <<mBuffer, mIsFull, mCapacity, bret>>

\* void Buffer::clear()
ClearBody(t) ==
    /\ bpc[t] = "clear_cs"
    /\ mHead' = 0
    /\ mTail' = 0
    /\ mIsFull' = FALSE
    /\ accepted' = <<>>
    /\ delivered' = <<>>
    /\ lastMove' = "clear"
    /\ sinceClear' = 0
    /\ BufUnlock(t)
    /\ UNCHANGED <<mBuffer, mCapacity, bret>>

\* size_t Buffer::available() const
AvailableBody(t) ==
    /\ bpc[t] = "available_cs"
    /\ bret' = getAvailableInternal
    /\ BufUnlock(t)
    /\ UNCHANGED <<mBuffer, mHead, mTail, mIsFull, mCapacity,
                   accepted, delivered, lastMove, sinceClear>>

\* size_t Buffer::capacity() const
CapacityBody(t) ==
    /\ bpc[t] = "capacity_cs"
    /\ bret' = mCapacity
    /\ BufUnlock(t)
    /\ UNCHANGED <<mBuffer, mHead, mTail, mIsFull, mCapacity,
                   accepted, delivered, lastMove, sinceClear>>

\* What callers may still offer: between two clears they offer no more
\* than TotalBytes bytes that get accepted, and never more than MaxLen at
\* once.
Offers == Chunks(Min(MaxLen, TotalBytes - Len(accepted)))

\* Any number of threads calling any operation of one buffer.
BufferNext ==
    \E t \in Threads :
        \/ WriteLock(t) /\ UNCHANGED <<nonBufferVars, bufTestVars>>
        \/ ReadLock(t) /\ UNCHANGED <<nonBufferVars, bufTestVars>>
        \/ ClearLock(t) /\ UNCHANGED <<nonBufferVars, bufTestVars>>
        \/ AvailableLock(t) /\ UNCHANGED <<nonBufferVars, bufTestVars>>
        \/ CapacityLock(t) /\ UNCHANGED <<nonBufferVars, bufTestVars>>
        \/ \E data \in Offers :
               WriteBody(t, data) /\ UNCHANGED <<nonBufferVars, bufTestVars>>
        \/ \E len \in 0..MaxLen :
               ReadBody(t, len) /\ UNCHANGED <<nonBufferVars, bufTestVars>>
        \/ ClearBody(t) /\ UNCHANGED <<nonBufferVars, bufTestVars>>
        \/ AvailableBody(t) /\ UNCHANGED <<nonBufferVars, bufTestVars>>
        \/ CapacityBody(t) /\ UNCHANGED <<nonBufferVars, bufTestVars>>

BufferSpec == Init /\ [][BufferNext]_vars

(***************************************************************************)
(* Properties of the buffer.                                               *)
(***************************************************************************)

\* The bytes the buffer holds, oldest first: what the cursors and the full
\* flag say is readable.
Held == [i \in 1..getAvailableInternal |-> mBuffer[(mTail + i - 1) % mCapacity]]

\* The accepted bytes that no read has returned yet, oldest first.
Outstanding == SubSeq(accepted, Len(delivered) + 1, Len(accepted))

IsPrefix(a, b) == Len(a) <= Len(b) /\ a = SubSeq(b, 1, Len(a))

\* The bytes a step took from the data of a write.
Taken == SubSeq(accepted', Len(accepted) + 1, Len(accepted'))

\* Data of len bytes that begins with the bytes the step took.  write()
\* does not look at the bytes of data behind those it takes, so among the
\* data of one length that begin alike, the one that goes on with zeros
\* stands for all of them.
DataOf(len) ==
    LET taken == Taken IN
        [i \in 1..len |-> IF i <= Len(taken) THEN taken[i] ELSE 0]

\* C11: whatever the threads have called and however their calls
\* interleaved, available() is between 0 and capacity(), and capacity() is
\* the capacity the buffer was constructed with.
C11_AvailableWithinCapacity ==
    /\ available \in 0..capacity
    /\ capacity = Capacity

\* The buffer is full with its cursors past the start of the storage, after
\* a clear, while another call is inside its critical section.
C11_Witness ==
    /\ available = capacity
    /\ mHead # 0
    /\ sinceClear >= 0
    /\ \E t \in Threads : bpc[t] \in BufCsPcs

\* C12: as long as nothing cleared the buffer, what the reads returned is,
\* in order, the beginning of what the writes accepted, and the buffer
\* holds the rest of it in order.
C12_ReadsArePrefixOfWrites ==
    /\ IsPrefix(delivered, accepted)
    /\ Held = Outstanding

\* Bytes were read, and the bytes held span the physical end of the storage:
\* the older one sits at the last index, a different one at index 0.
C12_Witness ==
    /\ delivered # <<>>
    /\ lastMove = "write"
    /\ mTail = mCapacity - 1
    /\ mHead \in 1..(mTail - 1)
    /\ mBuffer[mTail] # mBuffer[0]

\* C13: write(data, len) returns min(len, capacity() - available()) as they
\* were before the call, stores that many bytes from the start of data
\* behind the ones held, and available() grows by what it returned.
C13_WriteReturnsMin ==
    [][\A t \in Threads : bpc[t] = "write_cs" =>
          \A len \in 0..MaxLen :
              LET data == DataOf(len)
                  n == Min(len, capacity - available) IN
                  WriteBody(t, data) =>
                      /\ bret' = n
                      /\ available' = available + n
                      /\ Held' = Held \o SubSeq(data, 1, n)]_vars

\* A write into a buffer that had room for only part of the data has
\* returned: it accepted less than the capacity and the buffer is full.
C13_Witness ==
    /\ lastMove = "write"
    /\ \A t \in Threads : bpc[t] = "idle"
    /\ bret \in 1..(capacity - 1)
    /\ available = capacity
    /\ Len(accepted) > capacity

\* C14: read(dest, len) returns min(len, available()) as it was before the
\* call, hands out the oldest that many bytes, and available() shrinks by
\* what it returned; on an empty buffer it returns 0 and changes nothing.
C14_ReadReturnsMin ==
    [][\A t \in Threads : \A len \in 0..MaxLen :
          ReadBody(t, len) =>
              LET n == Min(len, available) IN
                  /\ bret' = n
                  /\ available' = available - n
                  /\ delivered' = delivered \o SubSeq(Outstanding, 1, n)
                  /\ available = 0 => bret' = 0 /\ available' = 0]_vars

\* A read has returned some of the bytes and left others in the buffer.
C14_Witness ==
    /\ lastMove = "read"
    /\ \A t \in Threads : bpc[t] = "idle"
    /\ bret \in 1..(capacity - 1)
    /\ Len(delivered) = bret
    /\ available > 0

\* C15: empty and full are told apart.  A write that takes all the room
\* there is leaves available() == capacity() with the cursors equal, a read
\* of capacity() bytes from the full buffer leaves available() == 0 with
\* the cursors equal, and whenever the cursors are equal the buffer reports
\* capacity() exactly if the last call that moved a cursor was a write.
C15_EmptyFullDistinct ==
    /\ [](mHead = mTail => (available = capacity <=> lastMove = "write"))
    /\ [][\A t \in Threads :
             (/\ capacity - available > 0
              /\ WriteBody(t, DataOf(capacity - available)))
             => available' = capacity /\ mHead' = mTail']_vars
    /\ [][\A t \in Threads :
             (ReadBody(t, capacity) /\ available = capacity)
             => available' = 0 /\ mHead' = mTail']_vars

\* The buffer was filled from cursors past the start of the storage and one
\* read has emptied it: the cursors are equal again and not at 0.
C15_Witness ==
    /\ lastMove = "read"
    /\ \A t \in Threads : bpc[t] = "idle"
    /\ bret = capacity
    /\ available = 0
    /\ mHead = mTail
    /\ mHead # 0
    /\ Len(delivered) > capacity

\* C16: right after clear() available() is 0 and capacity() is what it
\* was; a write of capacity() bytes that follows is accepted in full, a
\* read of capacity() bytes that follows it returns just these bytes in
\* order, and no read after a clear returns anything but what was written
\* after that clear.
C16_ClearResets ==
    /\ [](lastMove = "clear" => available = 0 /\ capacity = Capacity)
    /\ [](sinceClear >= 0 => IsPrefix(delivered, accepted))
    /\ [][\A t \in Threads :
             (lastMove = "clear" /\ WriteBody(t, DataOf(capacity)))
             => /\ bret' = capacity
                /\ available' = capacity
                /\ Held' = DataOf(capacity)]_vars
    /\ [][\A t \in Threads :
             (/\ ReadBody(t, capacity)
              /\ sinceClear = 1
              /\ lastMove = "write"
              /\ Len(accepted) = capacity)
             => bret' = capacity /\ delivered' = accepted /\ available' = 0]_vars

\* After a clear the buffer was filled by one write and emptied by one
\* read, and the bytes that came back are not all the same.
C16_Witness ==
    /\ sinceClear = 2
    /\ lastMove = "read"
    /\ \A t \in Threads : bpc[t] = "idle"
    /\ bret = capacity
    /\ Len(accepted) = capacity
    /\ delivered = accepted
    /\ delivered[1] # delivered[2]

(***************************************************************************)
(* TEST(BufferTest, ConcurrencyProducerConsumer): one producer thread and  *)
(* one consumer thread on one buffer.  The test moves 10000 bytes in       *)
(* chunks of 100 through a buffer of 4096; here the stream is as much      *)
(* longer than the capacity, and the chunks are ChunkSize long.            *)
(***************************************************************************)
BufProducer == 1
BufConsumer == 2

\* const size_t TOTAL_BYTES = 10000 beside Buffer buffer(4096): more than
\* twice the capacity.
TOTAL_BYTES == 2 * Capacity + 1

\* static_cast<uint8_t>(... % 256)
ByteModulus == 256

\* The byte at offset i of the stream the producer sends.
StreamByte(i) == i % ByteModulus
Stream == [i \in 1..TOTAL_BYTES |-> StreamByte(i - 1)]

bufAllVars == <<bufferVars, bufTestVars>>

BufTestInit ==
    /\ QueueInit
    /\ TestIdle
    /\ AppInit
    /\ ExtraIdle
    /\ BufferInit
    /\ btpc = [prod |-> "loop", cons |-> "loop"]
    /\ bytesSent = 0
    /\ bProducerFinished = FALSE
    /\ bReceivedData = <<>>

\* while (bytesSent < TOTAL_BYTES) { ... buffer.write(chunk, toWrite): the
\* producer goes for the mutex.
BufProducerLock ==
    /\ btpc.prod = "loop"
    /\ bytesSent < TOTAL_BYTES
    /\ WriteLock(BufProducer)
    /\ btpc' = [btpc EXCEPT !.prod = "write"]
    /\ UNCHANGED <<bytesSent, bProducerFinished, bReceivedData>>

\* The chunk the producer fills for offset sent and the part of it that it
\* passes to write.
ChunkAt(sent) ==
    LET chunk == [i \in 1..ChunkSize |-> StreamByte(sent + i - 1)]
        toWrite == Min(ChunkSize, TOTAL_BYTES - sent)
    IN SubSeq(chunk, 1, toWrite)

\* The producer that counts all it offered as sent.
BufProducerWriteCountsOffered ==
    /\ btpc.prod = "write"
    /\ WriteBody(BufProducer, ChunkAt(bytesSent))
    /\ bytesSent' = bytesSent + Len(ChunkAt(bytesSent))
    /\ btpc' = [btpc EXCEPT !.prod = "loop"]
    /\ UNCHANGED <<bProducerFinished, bReceivedData>>

\* written = buffer.write(chunk, toWrite); bytesSent += written.  The yield
\* after a write of 0 bytes changes no state.
BufProducerWrite ==
    /\ btpc.prod = "write"
    /\ WriteBody(BufProducer, ChunkAt(bytesSent))
    /\ bytesSent' = bytesSent + bret'
    /\ btpc' = [btpc EXCEPT !.prod = "loop"]
    /\ UNCHANGED <<bProducerFinished, bReceivedData>>

\* The producer that leaves without raising the flag.
BufProducerFinishSilent ==
    /\ btpc.prod = "loop"
    /\ bytesSent >= TOTAL_BYTES
    /\ btpc' = [btpc EXCEPT !.prod = "done"]
    /\ UNCHANGED <<bytesSent, bProducerFinished, bReceivedData>>
    /\ UNCHANGED bufferVars

\* The loop ends: producerFinished = true.
BufProducerFinish ==
    /\ btpc.prod = "loop"
    /\ bytesSent >= TOTAL_BYTES
    /\ bProducerFinished' = TRUE
    /\ btpc' = [btpc EXCEPT !.prod = "done"]
    /\ UNCHANGED <<bytesSent, bReceivedData>>
    /\ UNCHANGED bufferVars

\* while (true) { bytesRead = buffer.read(readBuf, 100): the consumer goes
\* for the mutex.
BufConsumerLock ==
    /\ btpc.cons = "loop"
    /\ ReadLock(BufConsumer)
    /\ btpc' = [btpc EXCEPT !.cons = "read"]
    /\ UNCHANGED <<bytesSent, bProducerFinished, bReceivedData>>

\* read returns and the consumer appends readBuf[0..bytesRead-1], the bytes
\* this read handed out, to receivedData.
BufConsumerRead ==
    /\ btpc.cons = "read"
    /\ ReadBody(BufConsumer, ChunkSize)
    /\ bReceivedData' =
           bReceivedData \o SubSeq(delivered', Len(delivered) + 1, Len(delivered'))
    /\ btpc' = [btpc EXCEPT !.cons = "check"]
    /\ UNCHANGED <<bytesSent, bProducerFinished>>

\* if (producerFinished && ...: available() is only called when the flag
\* is set.  The yield after a read of 0 bytes changes no state.
BufConsumerCheckFinished ==
    /\ btpc.cons = "check"
    /\ btpc' = [btpc EXCEPT !.cons = IF bProducerFinished THEN "available" ELSE "loop"]
    /\ UNCHANGED <<bytesSent, bProducerFinished, bReceivedData>>
    /\ UNCHANGED bufferVars

\* ... && buffer.available() == 0): the consumer goes for the mutex.
BufConsumerAvailableLock ==
    /\ btpc.cons = "available"
    /\ AvailableLock(BufConsumer)
    /\ btpc' = [btpc EXCEPT !.cons = "available_cs"]
    /\ UNCHANGED <<bytesSent, bProducerFinished, bReceivedData>>

\* available() returns: break if it is 0.
BufConsumerAvailable ==
    /\ btpc.cons = "available_cs"
    /\ AvailableBody(BufConsumer)
    /\ btpc' = [btpc EXCEPT !.cons = IF bret' = 0 THEN "done" ELSE "loop"]
    /\ UNCHANGED <<bytesSent, bProducerFinished, bReceivedData>>

BufTestNext ==
    \/ BufProducerLock /\ UNCHANGED nonBufferVars
    \/ BufProducerWrite /\ UNCHANGED nonBufferVars
    \/ BufProducerFinish /\ UNCHANGED nonBufferVars
    \/ BufConsumerLock /\ UNCHANGED nonBufferVars
    \/ BufConsumerRead /\ UNCHANGED nonBufferVars
    \/ BufConsumerCheckFinished /\ UNCHANGED nonBufferVars
    \/ BufConsumerAvailableLock /\ UNCHANGED nonBufferVars
    \/ BufConsumerAvailable /\ UNCHANGED nonBufferVars

\* Both threads are scheduled fairly, and a thread that goes for the mutex
\* again and again gets it.
BufTestFairness ==
    /\ SF_bufAllVars(BufProducerLock)
    /\ WF_bufAllVars(BufProducerWrite)
    /\ WF_bufAllVars(BufProducerFinish)
    /\ SF_bufAllVars(BufConsumerLock)
    /\ WF_bufAllVars(BufConsumerRead)
    /\ WF_bufAllVars(BufConsumerCheckFinished)
    /\ SF_bufAllVars(BufConsumerAvailableLock)
    /\ WF_bufAllVars(BufConsumerAvailable)

BufTestSpec == BufTestInit /\ [][BufTestNext]_vars /\ BufTestFairness

\* C17: in the test, whatever the interleaving, what the consumer has
\* accumulated is the beginning of the stream the producer sends, and it is
\* the whole stream once the producer has finished and the buffer is
\* empty.
C17_ConsumerGetsStream ==
    /\ IsPrefix(bReceivedData, Stream)
    /\ (bProducerFinished /\ available = 0) => bReceivedData = Stream

\* The producer is still sending, had a write accepted in part only, and the
\* consumer already holds more bytes than the buffer has room for.
C17_Witness ==
    /\ btpc.prod = "loop"
    /\ bytesSent < TOTAL_BYTES
    /\ bytesSent % ChunkSize # 0
    /\ Len(bReceivedData) > capacity
    /\ mTail < mHead

\* C18: under fair scheduling both threads of the test leave their loops,
\* and the consumer then holds exactly TOTAL_BYTES bytes.
C18_BufTestTerminates ==
    <>[](/\ btpc.prod = "done"
         /\ btpc.cons = "done"
         /\ Len(bReceivedData) = TOTAL_BYTES)

\* Both threads are done and every mutex is free.
C18_Witness ==
    /\ btpc.prod = "done"
    /\ btpc.cons = "done"
    /\ bProducerFinished
    /\ bufMutex = NoThread
    /\ Len(bReceivedData) = TOTAL_BYTES

(***************************************************************************)
(* Controller::AppController with the SerialManager, the AudioPlayer and   *)
(* the PlayerState of this repository behind its three interfaces.         *)
(*                                                                         *)
(* A client thread calls the controller's operations one after the other.  *)
(* The serial manager's read thread runs beside it while the port is       *)
(* open; when a read fails it reports SerialState::ERROR through the state *)
(* callback, which runs AppController::onSerialStateChanged on the read    *)
(* thread: a load of mAppState and, if that was RUNNING, a store of READY. *)
(* The status lines the controller sends to the board leave nothing behind *)
(* in it and are not modelled.                                             *)
(***************************************************************************)
AppStates == {"UNINITIALIZED", "READY", "RUNNING", "ERROR"}

\* The tracks callers add.
Tracks == 1..MaxTracks

\* The user's AppStateCallback, if there is one, is called with state st.
Notified(st) == IF mStateCallback THEN st ELSE notified

\* What the history records about a call that is returning: the state it
\* found, what became of the audio player's initialize(), what the call
\* returns, the state it leaves, whether the audio player is initialized
\* and all callbacks are registered when it returns, and the serial
\* manager's state before and after.
CallRec(op, audio, r) ==
    [op |-> op, pre |-> mAppState, audio |-> audio, ret |-> r,
     post |-> mAppState',
     ready |-> audioInitialized' /\ audioCallback' /\ serialCallbacks',
     serialPre |-> serialState, serialPost |-> serialState']

\* std::terminate was called: the process is gone.
Terminated == readerPc = "terminate"

\* The client thread is between two calls on the controller.
ClientIdle == ~Terminated /\ appPc = "idle"

\* AppController::onSerialStateChanged(DISCONNECTED or ERROR) run to its end
\* in state st: the state it leaves.
AfterLost(st) == IF serialCallbacks /\ st = "RUNNING" THEN "READY" ELSE st

\* bool AppController::initialize(); audioOk is what the audio player's
\* initialize() returns if it is called.
AppInitialize(audioOk) ==
    /\ ClientIdle
    /\ UNCHANGED <<mStateCallback, mVolume, volumeArg, mMuted, appPc, serialState,
                   readerPc, mPlaylist, mCurrentTrackIndex>>
    /\ IF mAppState # "UNINITIALIZED"
       THEN /\ UNCHANGED <<mAppState, notified, audioInitialized, audioCallback,
                           audioVolume, serialCallbacks>>
            /\ lastCall' = CallRec("initialize", "skipped", TRUE)
       ELSE IF ~audioOk
       THEN /\ mAppState' = "ERROR"
            /\ notified' = Notified("ERROR")
            /\ UNCHANGED <<audioInitialized, audioCallback, audioVolume,
                           serialCallbacks>>
            /\ lastCall' = CallRec("initialize", "failed", FALSE)
       ELSE /\ audioInitialized' = TRUE
            /\ audioCallback' = TRUE
            /\ serialCallbacks' = TRUE
            /\ audioVolume' = mVolume
            /\ mAppState' = "READY"
            /\ notified' = Notified("READY")
            /\ lastCall' = CallRec("initialize", "ok", TRUE)

\* void AppController::shutdown(): SerialManager::disconnect, which does
\* nothing unless the port is open and otherwise joins the read thread and
\* reports DISCONNECTED; AudioPlayer::shutdown, which drops the callback of
\* an initialized player; clearPlaylist; mStateCallback = nullptr; and the
\* store of UNINITIALIZED.
AppShutdown ==
    /\ ClientIdle
    /\ LET open == serialState = "CONNECTED" IN
        /\ serialState' = IF open THEN "DISCONNECTED" ELSE serialState
        /\ readerPc' = IF open THEN "off" ELSE readerPc
        /\ notified' = IF open /\ AfterLost(mAppState) # mAppState
                       THEN Notified("READY") ELSE notified
    /\ audioInitialized' = FALSE
    /\ audioCallback' = IF audioInitialized THEN FALSE ELSE audioCallback
    /\ mPlaylist' = <<>>
    /\ mCurrentTrackIndex' = -1
    /\ mStateCallback' = FALSE
    /\ mAppState' = "UNINITIALIZED"
    /\ UNCHANGED <<audioVolume, mVolume, volumeArg, mMuted, appPc, serialCallbacks>>
    /\ lastCall' = CallRec("shutdown", "skipped", "none")

\* void AppController::setStateCallback(callback), with a callback (TRUE)
\* or with nullptr (FALSE).
AppSetStateCallback(cb) ==
    /\ ClientIdle
    /\ mStateCallback' = cb
    /\ UNCHANGED <<mAppState, notified, audioInitialized, audioCallback,
                   audioVolume, mVolume, volumeArg, mMuted, appPc, serialState, serialCallbacks, readerPc,
                   mPlaylist, mCurrentTrackIndex>>
    /\ lastCall' = CallRec("setStateCallback", "skipped", "none")

\* bool AppController::connectToBoard(portName, baudRate), that is
\* SerialManager::connect, up to the start of the read thread; portOk says
\* whether the port can be opened and configured.  An open port is
\* disconnected first.  CONNECTING is reported and changes nothing in the
\* controller.  A port that cannot be opened is reported as ERROR and the
\* call returns false.  Otherwise mState becomes CONNECTED and the read
\* thread is started, which calls std::terminate if the previous read
\* thread ended and was never joined.
AppConnectToBoard(portOk) ==
    /\ ClientIdle
    /\ UNCHANGED <<mStateCallback, audioInitialized, audioCallback, audioVolume,
                   mVolume, volumeArg, mMuted, serialCallbacks, mPlaylist,
                   mCurrentTrackIndex>>
    /\ LET open == serialState = "CONNECTED"
           st1 == IF open THEN AfterLost(mAppState) ELSE mAppState
           n1 == IF st1 # mAppState THEN Notified("READY") ELSE notified
           rd1 == IF open THEN "off" ELSE readerPc
       IN IF ~portOk
          THEN /\ serialState' = "ERROR"
               /\ readerPc' = rd1
               /\ mAppState' = AfterLost(st1)
               /\ notified' = IF AfterLost(st1) # st1 THEN Notified("READY") ELSE n1
               /\ appPc' = "idle"
               /\ lastCall' = CallRec("connectToBoard", "skipped", FALSE)
          ELSE IF rd1 # "off"
          THEN /\ serialState' = "CONNECTED"
               /\ readerPc' = "terminate"
               /\ mAppState' = st1
               /\ notified' = n1
               /\ appPc' = "idle"
               /\ lastCall' = CallRec("connectToBoard", "skipped", "none")
          ELSE /\ serialState' = "CONNECTED"
               /\ readerPc' = "run"
               /\ mAppState' = st1
               /\ notified' = n1
               /\ appPc' = "connected"
               /\ lastCall' = CallRec("connectToBoard", "skipped", "pending")

\* ... the end of SerialManager::connect, with the read thread running:
\* notifyStateChange(SerialState::CONNECTED), on which the controller goes
\* to RUNNING, and return true.
AppConnectReport ==
    /\ ~Terminated
    /\ appPc = "connected"
    /\ appPc' = "idle"
    /\ mAppState' = IF serialCallbacks THEN "RUNNING" ELSE mAppState
    /\ notified' = IF serialCallbacks THEN Notified("RUNNING") ELSE notified
    /\ UNCHANGED <<mStateCallback, audioInitialized, audioCallback, audioVolume,
                   mVolume, volumeArg, mMuted, serialState, serialCallbacks, readerPc,
                   mPlaylist, mCurrentTrackIndex>>
    /\ lastCall' = [lastCall EXCEPT !.ret = TRUE, !.post = mAppState',
                                    !.serialPost = serialState']

\* void AppController::disconnectFromBoard(), that is
\* SerialManager::disconnect.
AppDisconnectFromBoard ==
    /\ ClientIdle
    /\ LET open == serialState = "CONNECTED" IN
        /\ serialState' = IF open THEN "DISCONNECTED" ELSE serialState
        /\ readerPc' = IF open THEN "off" ELSE readerPc
        /\ mAppState' = IF open THEN AfterLost(mAppState) ELSE mAppState
        /\ notified' = IF open /\ AfterLost(mAppState) # mAppState
                       THEN Notified("READY") ELSE notified
    /\ UNCHANGED <<mStateCallback, audioInitialized, audioCallback, audioVolume,
                   mVolume, volumeArg, mMuted, appPc, serialCallbacks, mPlaylist, mCurrentTrackIndex>>
    /\ lastCall' = CallRec("disconnectFromBoard", "skipped", "none")

\* void AppController::addToPlaylist(filePath)
AppAddToPlaylist(track) ==
    /\ ClientIdle
    /\ Len(mPlaylist) < MaxTracks
    /\ mPlaylist' = Append(mPlaylist, track)
    /\ mCurrentTrackIndex' = IF Len(mPlaylist') = 1 THEN 0 ELSE mCurrentTrackIndex
    /\ UNCHANGED <<mAppState, mStateCallback, notified, audioInitialized,
                   audioCallback, audioVolume, mVolume, volumeArg, mMuted, appPc, serialState,
                   serialCallbacks, readerPc>>
    /\ lastCall' = CallRec("addToPlaylist", "skipped", "none")

\* void AppController::clearPlaylist()
AppClearPlaylist ==
    /\ ClientIdle
    /\ mPlaylist' = <<>>
    /\ mCurrentTrackIndex' = -1
    /\ UNCHANGED <<mAppState, mStateCallback, notified, audioInitialized,
                   audioCallback, audioVolume, mVolume, volumeArg, mMuted, appPc, serialState,
                   serialCallbacks, readerPc>>
    /\ lastCall' = CallRec("clearPlaylist", "skipped", "none")

\* The volumes callers pass: around both ends of the range, outside it too.
VolumeInputs ==
    (MIN_VOLUME - VolumeSlack)..(MIN_VOLUME + VolumeSlack)
        \cup (MAX_VOLUME - VolumeSlack)..(MAX_VOLUME + VolumeSlack)

\* std::clamp(v, lo, hi)
Clamp(v, lo, hi) == IF v < lo THEN lo ELSE IF hi < v THEN hi ELSE v

\* clampVolume that only keeps the volume from going below the range.
ClampVolumeNoUpper(volume) == IF volume < MIN_VOLUME THEN MIN_VOLUME ELSE volume

\* int PlayerState::clampVolume(volume)
clampVolume(volume) == Clamp(volume, MIN_VOLUME, MAX_VOLUME)

\* The volume AudioPlayer::setVolume(volume) stores.
AudioSetVolume(volume) == Clamp(volume, 0, 100)

\* setVolume that hands the volume to the audio player whether the player
\* state is muted or not.
AppSetVolumeWhileMuted(v) ==
    /\ ClientIdle
    /\ mVolume' = clampVolume(Clamp(v, 0, 100))
    /\ volumeArg' = <<v>>
    /\ audioVolume' = AudioSetVolume(Clamp(v, 0, 100))
    /\ UNCHANGED <<mAppState, mStateCallback, notified, audioInitialized,
                   audioCallback, mMuted, appPc, serialState, serialCallbacks,
                   readerPc, mPlaylist, mCurrentTrackIndex>>
    /\ lastCall' = CallRec("setVolume", "skipped", "none")

\* void AppController::setVolume(int volume)
AppSetVolume(v) ==
    /\ ClientIdle
    /\ LET volume == Clamp(v, 0, 100) IN
        /\ mVolume' = clampVolume(volume)
        /\ volumeArg' = <<v>>
        /\ audioVolume' = IF ~mMuted THEN AudioSetVolume(volume) ELSE audioVolume
    /\ UNCHANGED <<mAppState, mStateCallback, notified, audioInitialized,
                   audioCallback, mMuted, appPc, serialState, serialCallbacks,
                   readerPc, mPlaylist, mCurrentTrackIndex>>
    /\ lastCall' = CallRec("setVolume", "skipped", "none")

\* void AppController::toggleMute()
AppToggleMute ==
    /\ ClientIdle
    /\ mMuted' = ~mMuted
    /\ audioVolume' = IF mMuted THEN AudioSetVolume(mVolume) ELSE AudioSetVolume(0)
    /\ UNCHANGED <<mAppState, mStateCallback, notified, audioInitialized,
                   audioCallback, mVolume, volumeArg, appPc, serialState,
                   serialCallbacks, readerPc, mPlaylist, mCurrentTrackIndex>>
    /\ lastCall' = CallRec("toggleMute", "skipped", "none")

\* The audio player's volume after AppController::play(): a muted player
\* state is unmuted and the stored volume handed to the audio player.
PlayVolume == IF mMuted THEN AudioSetVolume(mVolume) ELSE audioVolume

\* void AppController::play()
AppPlay ==
    /\ ClientIdle
    /\ mMuted' = FALSE
    /\ audioVolume' = PlayVolume
    /\ UNCHANGED <<mAppState, mStateCallback, notified, audioInitialized,
                   audioCallback, mVolume, volumeArg, appPc, serialState,
                   serialCallbacks, readerPc, mPlaylist, mCurrentTrackIndex>>
    /\ lastCall' = CallRec("play", "skipped", "none")

\* The index of the first playlist entry whose path is track, counted from
\* 0 as the loop of loadTrack counts, or -1 if there is none.
IndexOfPath(track) ==
    IF \E i \in 1..Len(mPlaylist) : mPlaylist[i] = track
    THEN (CHOOSE i \in 1..Len(mPlaylist) :
              /\ mPlaylist[i] = track
              /\ \A j \in 1..(i - 1) : mPlaylist[j] # track) - 1
    ELSE -1

\* The current track index that loadTrack(track) leaves; loadOk says
\* whether SDL_mixer can load the file.  AudioPlayer::load fails on a player
\* that is not initialized.
LoadTrackIndex(track, loadOk) ==
    IF audioInitialized /\ loadOk /\ IndexOfPath(track) # -1
    THEN IndexOfPath(track)
    ELSE mCurrentTrackIndex

\* bool AppController::loadTrack(filePath)
AppLoadTrack(track, loadOk) ==
    /\ ClientIdle
    /\ mCurrentTrackIndex' = LoadTrackIndex(track, loadOk)
    /\ UNCHANGED <<mAppState, mStateCallback, notified, audioInitialized,
                   audioCallback, audioVolume, mVolume, volumeArg, mMuted, appPc,
                   serialState, serialCallbacks, readerPc, mPlaylist>>
    /\ lastCall' = CallRec("loadTrack", "skipped", audioInitialized /\ loadOk)

\* a % b of two ints in C++, b > 0: the quotient is truncated towards zero.
CRem(a, b) == IF a >= 0 THEN a % b ELSE 0 - ((0 - a) % b)

\* What next() and previous() do once they have computed the index of the
\* track to go to: if it is an index of the playlist, loadTrack of the path
\* there and play(), which unmutes a muted player state and hands the
\* stored volume back to the audio player.
GoToTrack(op, index, loadOk) ==
    /\ ClientIdle
    /\ IF index >= 0 /\ index < Len(mPlaylist)
       THEN /\ mCurrentTrackIndex' = LoadTrackIndex(mPlaylist[index + 1], loadOk)
            /\ mMuted' = FALSE
            /\ audioVolume' = PlayVolume
       ELSE UNCHANGED <<mCurrentTrackIndex, mMuted, audioVolume>>
    /\ UNCHANGED <<mAppState, mStateCallback, notified, audioInitialized,
                   audioCallback, mVolume, volumeArg, appPc, serialState, serialCallbacks,
                   readerPc, mPlaylist>>
    /\ lastCall' = CallRec(op, "skipped", "none")

\* next() that goes to the index behind the current one without wrapping.
AppNextTrackNoWrap(loadOk) ==
    /\ ClientIdle
    /\ mCurrentTrackIndex' = IF mPlaylist = <<>> THEN mCurrentTrackIndex
                             ELSE mCurrentTrackIndex + 1
    /\ UNCHANGED <<mAppState, mStateCallback, notified, audioInitialized,
                   audioCallback, audioVolume, mVolume, volumeArg, mMuted, appPc,
                   serialState, serialCallbacks, readerPc, mPlaylist>>
    /\ lastCall' = CallRec("next", "skipped", "none")

\* int nextIndex of next(), or -1 where next() returns before it computes
\* one, on an empty playlist.
NextIndex ==
    IF mPlaylist = <<>> THEN -1
    ELSE CRem(mCurrentTrackIndex + 1, Len(mPlaylist))

\* int prevIndex of previous(), or -1 on an empty playlist.
PreviousIndex ==
    IF mPlaylist = <<>> THEN -1
    ELSE IF mCurrentTrackIndex - 1 < 0 THEN Len(mPlaylist) - 1
    ELSE mCurrentTrackIndex - 1

\* void AppController::next()
AppNextTrack(loadOk) == GoToTrack("next", NextIndex, loadOk)

\* void AppController::previous()
AppPreviousTrack(loadOk) == GoToTrack("previous", PreviousIndex, loadOk)

\* SerialManager::readThreadFunc: a read fails, mState.store(ERROR).
ReaderError ==
    /\ readerPc = "run"
    /\ serialState' = "ERROR"
    /\ readerPc' = "report"
    /\ UNCHANGED <<mAppState, mStateCallback, notified, audioInitialized,
                   audioCallback, audioVolume, mVolume, volumeArg, mMuted, appPc, serialCallbacks,
                   mPlaylist, mCurrentTrackIndex, lastCall>>

\* notifyStateChange(SerialState::ERROR) on the read thread:
\* AppController::onSerialStateChanged loads mAppState.  The thread's
\* function returns unless that was RUNNING.
ReaderLoadState ==
    /\ readerPc = "report"
    /\ readerPc' = IF serialCallbacks /\ mAppState = "RUNNING" THEN "notify" ELSE "ended"
    /\ UNCHANGED <<mAppState, mStateCallback, notified, audioInitialized,
                   audioCallback, audioVolume, mVolume, volumeArg, mMuted, appPc, serialState,
                   serialCallbacks, mPlaylist, mCurrentTrackIndex, lastCall>>

\* ... notifyStateChange(AppState::READY) on the read thread, whose function
\* then returns.
ReaderNotify ==
    /\ readerPc = "notify"
    /\ mAppState' = "READY"
    /\ notified' = Notified("READY")
    /\ readerPc' = "ended"
    /\ UNCHANGED <<mStateCallback, audioInitialized, audioCallback, audioVolume,
                   mVolume, volumeArg, mMuted, appPc, serialState, serialCallbacks, mPlaylist,
                   mCurrentTrackIndex, lastCall>>

AppNext ==
    \/ \E audioOk \in BOOLEAN :
           AppInitialize(audioOk) /\ UNCHANGED nonAppVars
    \/ AppShutdown /\ UNCHANGED nonAppVars
    \/ \E cb \in BOOLEAN :
           AppSetStateCallback(cb) /\ UNCHANGED nonAppVars
    \/ \E portOk \in BOOLEAN :
           AppConnectToBoard(portOk) /\ UNCHANGED nonAppVars
    \/ AppConnectReport /\ UNCHANGED nonAppVars
    \/ AppDisconnectFromBoard /\ UNCHANGED nonAppVars
    \/ \E track \in Tracks :
           AppAddToPlaylist(track) /\ UNCHANGED nonAppVars
    \/ AppClearPlaylist /\ UNCHANGED nonAppVars
    \/ \E track \in Tracks, loadOk \in BOOLEAN :
           AppLoadTrack(track, loadOk) /\ UNCHANGED nonAppVars
    \/ \E loadOk \in BOOLEAN :
           AppNextTrack(loadOk) /\ UNCHANGED nonAppVars
    \/ \E loadOk \in BOOLEAN :
           AppPreviousTrack(loadOk) /\ UNCHANGED nonAppVars
    \/ ReaderError /\ UNCHANGED nonAppVars
    \/ ReaderLoadState /\ UNCHANGED nonAppVars
    \/ ReaderNotify /\ UNCHANGED nonAppVars

AppSpec == Init /\ [][AppNext]_vars

\* initialize() has been called.
InitializeCalled == lastCall.op # "none"

\* A client that calls initialize() on a new controller and from then on
\* setVolume, toggleMute, play and initialize in any order.
VolumeNext ==
    \/ \E audioOk \in BOOLEAN : AppInitialize(audioOk) /\ UNCHANGED nonAppVars
    \/ \E v \in VolumeInputs :
           InitializeCalled /\ AppSetVolume(v) /\ UNCHANGED nonAppVars
    \/ InitializeCalled /\ AppToggleMute /\ UNCHANGED nonAppVars
    \/ InitializeCalled /\ AppPlay /\ UNCHANGED nonAppVars

VolumeSpec == Init /\ [][VolumeNext]_vars

(***************************************************************************)
(* Model::PlayerState used by several threads.  Every field is a           *)
(* std::atomic and there is no mutex: a load and a store are one step      *)
(* each, and an operation that does both can be overtaken between them.    *)
(* The fields of PlayerState that no claim here reads (position, repeat    *)
(* mode, shuffle) are left out, and with them their stores in reset().     *)
(***************************************************************************)
PlaybackStates == {"STOPPED", "PLAYING", "PAUSED"}

\* void PlayerState::setVolume(int volume)
PlayerSetVolume(t, v) ==
    /\ ppc[t] = "idle"
    /\ mVolume' = clampVolume(v)
    /\ volumeArg' = <<v>>
    /\ UNCHANGED <<controllerVars, mMuted, mCurrentTrackIndex, playerVars>>

\* void PlayerState::reset(): mPlaybackState.store(STOPPED) ...
PlayerResetPlayback(t) ==
    /\ ppc[t] = "idle"
    /\ mPlaybackState' = "STOPPED"
    /\ ppc' = [ppc EXCEPT ![t] = "reset_volume"]
    /\ UNCHANGED <<controllerVars, mVolume, volumeArg, mMuted,
                   mCurrentTrackIndex, pcur, pret>>

\* ... mVolume.store(50) ...
PlayerResetVolume(t) ==
    /\ ppc[t] = "reset_volume"
    /\ mVolume' = DefaultVolume
    /\ volumeArg' = <<>>
    /\ ppc' = [ppc EXCEPT ![t] = "reset_muted"]
    /\ UNCHANGED <<controllerVars, mMuted, mCurrentTrackIndex, mPlaybackState,
                   pcur, pret>>

\* ... mMuted.store(false) ...
PlayerResetMuted(t) ==
    /\ ppc[t] = "reset_muted"
    /\ mMuted' = FALSE
    /\ ppc' = [ppc EXCEPT ![t] = "reset_index"]
    /\ UNCHANGED <<controllerVars, mVolume, volumeArg, mCurrentTrackIndex,
                   mPlaybackState, pcur, pret>>

\* ... mCurrentTrackIndex.store(-1), and reset() returns.
PlayerResetIndex(t) ==
    /\ ppc[t] = "reset_index"
    /\ mCurrentTrackIndex' = -1
    /\ ppc' = [ppc EXCEPT ![t] = "idle"]
    /\ UNCHANGED <<controllerVars, mVolume, volumeArg, mMuted, mPlaybackState,
                   pcur, pret>>

\* PlaybackState PlayerState::togglePlayPause():
\* PlaybackState current = mPlaybackState.load() ...
TogglePlayPauseLoad(t) ==
    /\ ppc[t] = "idle"
    /\ pcur' = [pcur EXCEPT ![t] = mPlaybackState]
    /\ ppc' = [ppc EXCEPT ![t] = "toggle_store"]
    /\ UNCHANGED <<appVars, mPlaybackState, pret>>

\* The store of togglePlayPause that stores PLAYING whatever it loaded.
TogglePlayPauseStoreAlwaysPlays(t) ==
    /\ ppc[t] = "toggle_store"
    /\ mPlaybackState' = "PLAYING"
    /\ pret' = "PLAYING"
    /\ pcur' = [pcur EXCEPT ![t] = "STOPPED"]
    /\ ppc' = [ppc EXCEPT ![t] = "idle"]
    /\ UNCHANGED appVars

\* ... newState from current; mPlaybackState.store(newState); return
\* newState.  The local variable is gone with the call.
TogglePlayPauseStore(t) ==
    /\ ppc[t] = "toggle_store"
    /\ LET newState == IF pcur[t] = "PLAYING" THEN "PAUSED" ELSE "PLAYING" IN
        /\ mPlaybackState' = newState
        /\ pret' = newState
    /\ pcur' = [pcur EXCEPT ![t] = "STOPPED"]
    /\ ppc' = [ppc EXCEPT ![t] = "idle"]
    /\ UNCHANGED appVars

\* Any number of threads calling setVolume, reset and togglePlayPause on the
\* PlayerState, and the client of the controller calling its setVolume.
PlayerNext ==
    \/ \E t \in Threads, v \in VolumeInputs :
           PlayerSetVolume(t, v) /\ UNCHANGED nonPlayerVars
    \/ \E t \in Threads : PlayerResetPlayback(t) /\ UNCHANGED nonPlayerVars
    \/ \E t \in Threads : PlayerResetVolume(t) /\ UNCHANGED nonPlayerVars
    \/ \E t \in Threads : PlayerResetMuted(t) /\ UNCHANGED nonPlayerVars
    \/ \E t \in Threads : PlayerResetIndex(t) /\ UNCHANGED nonPlayerVars
    \/ \E t \in Threads : TogglePlayPauseLoad(t) /\ UNCHANGED nonPlayerVars
    \/ \E t \in Threads : TogglePlayPauseStore(t) /\ UNCHANGED nonPlayerVars
    \/ \E v \in VolumeInputs : AppSetVolume(v) /\ UNCHANGED nonAppVars

PlayerSpec == Init /\ [][PlayerNext]_vars

(***************************************************************************)
(* Controller::SerialManager used by one client thread, with the read      *)
(* thread that connect() starts.  mState and mRunning are std::atomic; the *)
(* other fields are plain and only the client writes them.  A call of the  *)
(* client is cut where the read thread can come between: before            *)
(* disconnect() joins the thread, after connect() reported CONNECTING and  *)
(* after connect() started the thread.  What open(), tcgetattr(),          *)
(* tcsetattr() and the transfers on the descriptor return is chosen by the *)
(* environment.                                                            *)
(***************************************************************************)
SerialStates == {"DISCONNECTED", "CONNECTING", "CONNECTED", "ERROR"}

\* The devices a client names.
PortNames == {"/dev/ttyUSB0", "/dev/ttyACM0"}

\* The baud rates configureBaudRate has a termios constant for.
SupportedBaudRates == {9600, 19200, 38400, 57600, 115200, 230400}

\* The baud rates a client asks for: two the tests use and one that has no
\* termios constant.
BaudInputs == {9600, 115200, 12345}

\* The descriptor a successful open() returns.
OpenedFd == 3

\* bool SerialManager::isConnected() const
isConnected == mState = "CONNECTED"

\* std::thread::joinable() of mReadThread: a thread was started and has not
\* been joined, whether its function still runs or has returned.
Joinable == mReadThread # "none"

\* std::terminate() was called: the process is gone.
SerialTerminated == spc = "terminate"

\* void SerialManager::notifyStateChange(SerialState newState), as the
\* history of what a registered callback heard.
NotifyStateChange(log, newState) ==
    IF stateCallbackSet THEN Append(log, newState) ELSE log

\* void SerialManager::setStateCallback(SerialStateCallback callback)
SerialSetStateCallback(set) ==
    /\ spc = "idle"
    /\ stateCallbackSet' = set
    /\ UNCHANGED <<mState, mFileDescriptor, mPortName, mBaudRate, mRunning,
                   mReadThread, spc, connectArgs, openFds, heard, sret>>

\* bool SerialManager::configureBaudRate(int fd, uint32_t baudRate), where
\* attrOk tells whether tcgetattr() and tcsetattr() succeed.
configureBaudRate(baudRate, attrOk) ==
    attrOk /\ baudRate \in SupportedBaudRates

\* The rest of disconnect() after the join: the port is closed, the fields
\* are cleared, DISCONNECTED is stored and reported.
DisconnectRest ==
    /\ mReadThread' = "none"
    /\ openFds' = IF mFileDescriptor >= 0 THEN openFds - 1 ELSE openFds
    /\ mFileDescriptor' = -1
    /\ mPortName' = EmptyString
    /\ mBaudRate' = 0
    /\ mState' = "DISCONNECTED"
    /\ heard' = NotifyStateChange(heard, "DISCONNECTED")

\* void SerialManager::disconnect(), up to the join: it returns at once if
\* the manager is not connected and else tells the read thread to stop.
SerialDisconnect ==
    /\ spc = "idle"
    /\ IF isConnected
           THEN /\ mRunning' = FALSE
                /\ spc' = "join"
                /\ heard' = <<>>
                /\ UNCHANGED sret
           ELSE /\ sret' = [op |-> "disconnect", val |-> "void"]
                /\ heard' = <<>>
                /\ UNCHANGED <<mRunning, spc>>
    /\ UNCHANGED <<mState, mFileDescriptor, mPortName, mBaudRate, mReadThread,
                   stateCallbackSet, connectArgs, openFds>>

\* disconnect() from the join on: mReadThread.join() returns when the
\* thread's function has returned.
SerialDisconnectJoin ==
    /\ spc = "join"
    /\ mReadThread \in {"none", "ended"}
    /\ DisconnectRest
    /\ spc' = "idle"
    /\ sret' = [op |-> "disconnect", val |-> "void"]
    /\ UNCHANGED <<mRunning, stateCallbackSet, connectArgs>>

\* bool SerialManager::connect(portName, baudRate), its first statement:
\* if (isConnected()) disconnect(), up to the join.
SerialConnect(portName, baudRate) ==
    /\ spc = "idle"
    /\ connectArgs' = [portName |-> portName, baudRate |-> baudRate]
    /\ heard' = <<>>
    /\ IF isConnected
           THEN /\ mRunning' = FALSE
                /\ spc' = "connect_join"
           ELSE /\ spc' = "connect_start"
                /\ UNCHANGED mRunning
    /\ UNCHANGED <<mState, mFileDescriptor, mPortName, mBaudRate, mReadThread,
                   stateCallbackSet, openFds, sret>>

\* connect(): the disconnect() it called, from the join on.
SerialConnectJoin ==
    /\ spc = "connect_join"
    /\ mReadThread \in {"none", "ended"}
    /\ DisconnectRest
    /\ spc' = "connect_start"
    /\ UNCHANGED <<mRunning, stateCallbackSet, connectArgs, sret>>

\* connect(): mState.store(CONNECTING); notifyStateChange(CONNECTING).
SerialConnectStart ==
    /\ spc = "connect_start"
    /\ mState' = "CONNECTING"
    /\ heard' = NotifyStateChange(heard, "CONNECTING")
    /\ spc' = "connect_open"
    /\ UNCHANGED <<mFileDescriptor, mPortName, mBaudRate, mRunning,
                   mReadThread, stateCallbackSet, connectArgs, openFds, sret>>

\* connect() whose failed configureBaudRate leaves the state CONNECTING.
SerialConnectOpenKeepsConnecting(openOk, attrOk) ==
    /\ spc = "connect_open"
    /\ IF ~openOk \/ ~configureBaudRate(connectArgs.baudRate, attrOk)
           THEN /\ mFileDescriptor' = -1
                /\ mState' = IF openOk THEN mState ELSE "ERROR"
                /\ heard' = NotifyStateChange(heard, "ERROR")
                /\ spc' = "idle"
                /\ sret' = [op |-> "connect", val |-> FALSE,
                            started |-> FALSE, callback |-> stateCallbackSet]
                /\ UNCHANGED <<mPortName, mBaudRate, mRunning, mReadThread,
                               openFds>>
           ELSE /\ mFileDescriptor' = OpenedFd
                /\ openFds' = openFds + 1
                /\ mPortName' = connectArgs.portName
                /\ mBaudRate' = connectArgs.baudRate
                /\ mState' = "CONNECTED"
                /\ mRunning' = TRUE
                /\ mReadThread' = "run"
                /\ spc' = IF Joinable THEN "terminate" ELSE "connected"
                /\ UNCHANGED <<heard, sret>>
    /\ UNCHANGED <<stateCallbackSet, connectArgs>>

\* connect() from open() to the start of the read thread.  A failed open()
\* or configureBaudRate() stores and reports ERROR and returns false, the
\* descriptor closed again if it was opened.  Else the fields are set,
\* CONNECTED is stored and the thread is assigned to mReadThread: the move
\* assignment of std::thread calls std::terminate() if mReadThread is
\* joinable.
SerialConnectOpen(openOk, attrOk) ==
    /\ spc = "connect_open"
    /\ IF ~openOk \/ ~configureBaudRate(connectArgs.baudRate, attrOk)
           THEN /\ mFileDescriptor' = -1
                /\ mState' = "ERROR"
                /\ heard' = NotifyStateChange(heard, "ERROR")
                /\ spc' = "idle"
                /\ sret' = [op |-> "connect", val |-> FALSE,
                            started |-> FALSE, callback |-> stateCallbackSet]
                /\ UNCHANGED <<mPortName, mBaudRate, mRunning, mReadThread,
                               openFds>>
           ELSE /\ mFileDescriptor' = OpenedFd
                /\ openFds' = openFds + 1
                /\ mPortName' = connectArgs.portName
                /\ mBaudRate' = connectArgs.baudRate
                /\ mState' = "CONNECTED"
                /\ mRunning' = TRUE
                /\ IF Joinable
                       THEN /\ spc' = "terminate"
                            /\ UNCHANGED mReadThread
                       ELSE /\ spc' = "connected"
                            /\ mReadThread' = "run"
                /\ UNCHANGED <<heard, sret>>
    /\ UNCHANGED <<stateCallbackSet, connectArgs>>

\* connect(): notifyStateChange(CONNECTED); return true.
SerialConnectReport ==
    /\ spc = "connected"
    /\ heard' = NotifyStateChange(heard, "CONNECTED")
    /\ spc' = "idle"
    /\ sret' = [op |-> "connect", val |-> TRUE, started |-> TRUE,
                callback |-> stateCallbackSet]
    /\ UNCHANGED <<mState, mFileDescriptor, mPortName, mBaudRate, mRunning,
                   mReadThread, stateCallbackSet, connectArgs, openFds>>

\* The calls that transfer data or ask about it.
IoOps == {"send", "sendBytes", "read", "readLine", "available", "flush"}

\* What such a call returns when it finds the manager not connected.
NotConnectedResult(op) ==
    CASE op \in {"send", "sendBytes", "read"} -> -1
      [] op = "readLine" -> EmptyString
      [] op = "available" -> 0
      [] op = "flush" -> "void"

\* What such a call can return when it reaches the descriptor: the result
\* of write() or ::read(), a line or the empty string of an error or a
\* timeout, the count of FIONREAD.
IoOutcomes(op) ==
    CASE op \in {"send", "sendBytes", "read"} -> {-1, 0, 1}
      [] op = "readLine" -> {EmptyString, "PLAY"}
      [] op = "available" -> {0, 1}
      [] op = "flush" -> {"void"}

\* The condition under which the call does not reach the descriptor.
Refused(op) ==
    IF op = "readLine" THEN ~isConnected
                       ELSE ~isConnected \/ mFileDescriptor < 0

\* A transfer call that looks at the descriptor only, not at the state.
SerialIoChecksDescriptorOnly(op, outcome) ==
    /\ spc = "idle"
    /\ outcome \in IoOutcomes(op)
    /\ sret' = [op |-> op,
                val |-> IF mFileDescriptor < 0 THEN NotConnectedResult(op)
                                               ELSE outcome]
    /\ UNCHANGED <<mState, mFileDescriptor, mPortName, mBaudRate, mRunning,
                   mReadThread, stateCallbackSet, spc, connectArgs, openFds,
                   heard>>

\* int send(data), int sendBytes(data, length), int read(buffer, maxLength),
\* std::string readLine(timeout), size_t available() const, void flush()
SerialIo(op, outcome) ==
    /\ spc = "idle"
    /\ outcome \in IoOutcomes(op)
    /\ sret' = [op |-> op,
                val |-> IF Refused(op) THEN NotConnectedResult(op)
                                       ELSE outcome]
    /\ UNCHANGED <<mState, mFileDescriptor, mPortName, mBaudRate, mRunning,
                   mReadThread, stateCallbackSet, spc, connectArgs, openFds,
                   heard>>

\* void SerialManager::readThreadFunc(): while (mRunning.load()) is false
\* and the function returns.
ReadThreadExit ==
    /\ ~SerialTerminated
    /\ mReadThread = "run"
    /\ ~mRunning
    /\ mReadThread' = "ended"
    /\ UNCHANGED <<mState, mFileDescriptor, mPortName, mBaudRate, mRunning,
                   stateCallbackSet, spc, connectArgs, openFds, heard, sret>>

\* readThreadFunc(): ::read() fails with an errno that is neither EAGAIN nor
\* EWOULDBLOCK: mState.store(ERROR) ...
ReadThreadError ==
    /\ ~SerialTerminated
    /\ mReadThread = "run"
    /\ mState' = "ERROR"
    /\ mReadThread' = "report"
    /\ UNCHANGED <<mFileDescriptor, mPortName, mBaudRate, mRunning,
                   stateCallbackSet, spc, connectArgs, openFds, heard, sret>>

\* ... notifyStateChange(ERROR); break; and the function returns.
ReadThreadReport ==
    /\ ~SerialTerminated
    /\ mReadThread = "report"
    /\ heard' = NotifyStateChange(heard, "ERROR")
    /\ mReadThread' = "ended"
    /\ UNCHANGED <<mState, mFileDescriptor, mPortName, mBaudRate, mRunning,
                   stateCallbackSet, spc, connectArgs, openFds, sret>>

\* One client calling the SerialManager, and its read thread.
SerialNext ==
    \/ \E set \in BOOLEAN :
           SerialSetStateCallback(set) /\ UNCHANGED nonSerialVars
    \/ \E portName \in PortNames, baudRate \in BaudInputs :
           SerialConnect(portName, baudRate) /\ UNCHANGED nonSerialVars
    \/ SerialConnectJoin /\ UNCHANGED nonSerialVars
    \/ SerialConnectStart /\ UNCHANGED nonSerialVars
    \/ \E openOk \in BOOLEAN, attrOk \in BOOLEAN :
           SerialConnectOpen(openOk, attrOk) /\ UNCHANGED nonSerialVars
    \/ SerialConnectReport /\ UNCHANGED nonSerialVars
    \/ SerialDisconnect /\ UNCHANGED nonSerialVars
    \/ SerialDisconnectJoin /\ UNCHANGED nonSerialVars
    \/ \E op \in IoOps : \E outcome \in IoOutcomes(op) :
           SerialIo(op, outcome) /\ UNCHANGED nonSerialVars
    \/ ReadThreadExit /\ UNCHANGED nonSerialVars
    \/ ReadThreadError /\ UNCHANGED nonSerialVars
    \/ ReadThreadReport /\ UNCHANGED nonSerialVars

SerialSpec == Init /\ [][SerialNext]_vars

(***************************************************************************)
(* The read thread of a connected SerialManager: what readThreadFunc does  *)
(* with the bytes ::read() returns.  The board writes bytes one after the  *)
(* other; a ::read() returns any number of those that are waiting, so the  *)
(* stream reaches the thread cut at any places.  A data callback is        *)
(* registered before connect(), as the tests do it.                        *)
(***************************************************************************)
CR == "\r"
LF == "\n"

\* The bytes the board sends.
StreamBytes == {"a", "b", CR, LF}

\* if (!line.empty() && line.back() == '\r') line.pop_back(), done for as
\* long as the line ends in '\r'.
RECURSIVE StripEveryCarriageReturn(_)
StripEveryCarriageReturn(line) ==
    IF line # <<>> /\ line[Len(line)] = CR
        THEN StripEveryCarriageReturn(SubSeq(line, 1, Len(line) - 1))
        ELSE line

\* if (!line.empty() && line.back() == '\r') line.pop_back()
StripCarriageReturn(line) ==
    IF line # <<>> /\ line[Len(line)] = CR
        THEN SubSeq(line, 1, Len(line) - 1)
        ELSE line

\* lineBuffer.find('\n'), as an index from 1; 0 stands for npos.
FindNewline(buf) ==
    IF \E i \in 1..Len(buf) : buf[i] = LF
        THEN CHOOSE i \in 1..Len(buf) :
                 buf[i] = LF /\ \A j \in 1..(i - 1) : buf[j] # LF
        ELSE 0

\* while ((pos = lineBuffer.find('\n')) != npos): line is the part before
\* pos, lineBuffer loses it and the '\n', one '\r' at the end of line is
\* removed and the data callback is called unless line is empty.
\* notifiedLines collects the lines the callback is called with.
RECURSIVE ProcessLines(_, _)
ProcessLines(buf, notifiedLines) ==
    LET pos == FindNewline(buf) IN
        IF pos = 0
            THEN [lineBuffer |-> buf, notified |-> notifiedLines]
            ELSE LET line == StripCarriageReturn(SubSeq(buf, 1, pos - 1)) IN
                     ProcessLines(SubSeq(buf, pos + 1, Len(buf)),
                                  IF line # <<>>
                                      THEN Append(notifiedLines, line)
                                      ELSE notifiedLines)

\* The board writes one more byte to the line.
BoardWrite(byte) ==
    /\ Len(streamRead) + Len(pending) < MaxStream
    /\ pending' = Append(pending, byte)
    /\ UNCHANGED <<lineBuffer, streamRead, linesNotified>>

\* One turn of the loop of readThreadFunc in which ::read() returns n > 0
\* bytes: lineBuffer += std::string(buffer, n) and the complete lines are
\* processed.
ReadChunk(n) ==
    /\ mRunning
    /\ mReadThread = "run"
    /\ n \in 1..Len(pending)
    /\ LET after == ProcessLines(lineBuffer \o SubSeq(pending, 1, n), <<>>) IN
           /\ lineBuffer' = after.lineBuffer
           /\ linesNotified' = linesNotified \o after.notified
    /\ streamRead' = streamRead \o SubSeq(pending, 1, n)
    /\ pending' = SubSeq(pending, n + 1, Len(pending))

\* The state after connect(portName, baudRate) returned true on a newly
\* constructed manager that had a data callback set.
LineInit ==
    /\ QueueInit
    /\ TestIdle
    /\ BufferInit
    /\ BufTestIdle
    /\ AppInit
    /\ PlayerInit
    /\ LineIdle
    /\ PairIdle(Capacity)
    /\ LateIdle
    /\ mState = "CONNECTED"
    /\ mFileDescriptor = OpenedFd
    /\ mPortName \in PortNames
    /\ mBaudRate \in SupportedBaudRates \cap BaudInputs
    /\ mRunning = TRUE
    /\ mReadThread = "run"
    /\ stateCallbackSet = FALSE
    /\ spc = "idle"
    /\ connectArgs = [portName |-> mPortName, baudRate |-> mBaudRate]
    /\ openFds = 1
    /\ heard = <<>>
    /\ sret = [op |-> "connect", val |-> TRUE, started |-> TRUE,
               callback |-> FALSE]

\* The board sending and the read thread reading.
LineNext ==
    \/ \E byte \in StreamBytes : BoardWrite(byte) /\ UNCHANGED nonLineVars
    \/ \E n \in 1..MaxStream : ReadChunk(n) /\ UNCHANGED nonLineVars

LineSpec == LineInit /\ [][LineNext]_vars

(***************************************************************************)
(* The repository's other Buffer, which keeps the number of bytes it holds *)
(* in m_dataAvailable and copies with std::memcpy, next to the Buffer with *)
(* the full flag.  One caller makes every call on both, with the same      *)
(* arguments: first on the Buffer with the full flag, then on the other.   *)
(* Both Buffers are constructed with the same size, which may be 0.  A     *)
(* call on the occupied-count Buffer is one step: it holds m_mutex from    *)
(* its first statement to its return and nobody else calls.                *)
(***************************************************************************)
\* The thread that calls both Buffers.
PairCaller == CHOOSE t \in Threads : TRUE

\* std::memcpy(&buf[at], src + from, n), with src indexed from 1.
Memcpy(buf, at, src, from, n) ==
    [i \in DOMAIN buf |->
        IF at <= i /\ i < at + n THEN src[from + (i - at) + 1] ELSE buf[i]]

\* x % m_capacity.  With m_capacity == 0 the division is undefined; the
\* history variable modZero records that it was evaluated.
ModCapacity(x) == IF m_capacity = 0 THEN x ELSE x % m_capacity

\* The occupied-count write without its second std::memcpy.
OccWriteNoWrap(data) ==
    LET freeSpace == m_capacity - m_dataAvailable
        toWrite == Min(Len(data), freeSpace)
        spaceAtEnd == m_capacity - m_writePos
        chunk1 == Min(toWrite, spaceAtEnd)
    IN IF toWrite = 0
           THEN /\ oret' = 0
                /\ UNCHANGED <<m_buffer, m_writePos, m_dataAvailable, modZero>>
           ELSE /\ m_buffer' = Memcpy(m_buffer, m_writePos, data, 0, chunk1)
                /\ m_writePos' = ModCapacity(m_writePos + toWrite)
                /\ modZero' = (modZero \/ m_capacity = 0)
                /\ m_dataAvailable' = m_dataAvailable + toWrite
                /\ oret' = toWrite

\* The occupied-count write without its return at toWrite == 0.
OccWriteNoEarlyReturn(data) ==
    LET freeSpace == m_capacity - m_dataAvailable
        toWrite == Min(Len(data), freeSpace)
        spaceAtEnd == m_capacity - m_writePos
        chunk1 == Min(toWrite, spaceAtEnd)
        first == Memcpy(m_buffer, m_writePos, data, 0, chunk1)
    IN /\ m_buffer' = IF chunk1 < toWrite
                          THEN Memcpy(first, 0, data, chunk1, toWrite - chunk1)
                          ELSE first
       /\ m_writePos' = ModCapacity(m_writePos + toWrite)
       /\ modZero' = (modZero \/ m_capacity = 0)
       /\ m_dataAvailable' = m_dataAvailable + toWrite
       /\ oret' = toWrite

\* size_t Buffer::write(const uint8_t* data, size_t len) of the
\* occupied-count Buffer, with len the length of data.
OccWrite(data) ==
    LET freeSpace == m_capacity - m_dataAvailable
        toWrite == Min(Len(data), freeSpace)
        spaceAtEnd == m_capacity - m_writePos
        chunk1 == Min(toWrite, spaceAtEnd)
        first == Memcpy(m_buffer, m_writePos, data, 0, chunk1)
    IN IF toWrite = 0
           THEN /\ oret' = 0
                /\ UNCHANGED <<m_buffer, m_writePos, m_dataAvailable, modZero>>
           ELSE /\ m_buffer' = IF chunk1 < toWrite
                                   THEN Memcpy(first, 0, data, chunk1,
                                               toWrite - chunk1)
                                   ELSE first
                /\ m_writePos' = ModCapacity(m_writePos + toWrite)
                /\ modZero' = (modZero \/ m_capacity = 0)
                /\ m_dataAvailable' = m_dataAvailable + toWrite
                /\ oret' = toWrite

\* size_t Buffer::read(uint8_t* dest, size_t len) of the occupied-count
\* Buffer: dest gets chunk1 bytes from m_readPos on and the rest from the
\* start of m_buffer.
OccRead(len) ==
    LET toRead == Min(len, m_dataAvailable)
        dataAtEnd == m_capacity - m_readPos
        chunk1 == Min(toRead, dataAtEnd)
        dest == [i \in 1..toRead |->
                    IF i <= chunk1 THEN m_buffer[m_readPos + i - 1]
                                   ELSE m_buffer[i - chunk1 - 1]]
    IN IF toRead = 0
           THEN /\ oret' = 0
                /\ UNCHANGED <<m_readPos, m_dataAvailable, oDelivered, modZero>>
           ELSE /\ oDelivered' = oDelivered \o dest
                /\ m_readPos' = ModCapacity(m_readPos + toRead)
                /\ modZero' = (modZero \/ m_capacity = 0)
                /\ m_dataAvailable' = m_dataAvailable - toRead
                /\ oret' = toRead

\* void Buffer::clear() of the occupied-count Buffer
OccClear ==
    /\ m_readPos' = 0
    /\ m_writePos' = 0
    /\ m_dataAvailable' = 0
    /\ oDelivered' = <<>>
    /\ UNCHANGED <<m_buffer, oret, modZero>>

\* size_t Buffer::getAvailable() const of the occupied-count Buffer
OccGetAvailable ==
    /\ oret' = m_dataAvailable
    /\ UNCHANGED <<m_buffer, m_readPos, m_writePos, m_dataAvailable,
                   oDelivered, modZero>>

\* The calls that both Buffers have.
PairOps == {"write", "read", "clear", "available"}

\* The caller enters a call on the Buffer with the full flag.
PairLock(op) ==
    /\ pairPc = "idle"
    /\ BufLock(PairCaller, op \o "_cs")
    /\ UNCHANGED pairVars

\* The call on the Buffer with the full flag runs and returns.  Its loops
\* take an index modulo mCapacity once for every byte they move.
PairFirst(op, data, len) ==
    /\ pairPc = "idle"
    /\ bpc[PairCaller] = op \o "_cs"
    /\ CASE op = "write" -> WriteBody(PairCaller, data)
         [] op = "read" -> ReadBody(PairCaller, len)
         [] op = "clear" -> ClearBody(PairCaller)
         [] op = "available" -> AvailableBody(PairCaller)
    /\ pairCall' = [op |-> op, data |-> data, len |-> len]
    /\ pairPc' = "second"
    /\ modZero' = (modZero \/ (/\ op \in {"write", "read"}
                               /\ mCapacity = 0
                               /\ bret' > 0))
    /\ UNCHANGED <<m_buffer, m_readPos, m_writePos, m_dataAvailable,
                   m_capacity, oret, oDelivered>>

\* The same call with the same arguments on the occupied-count Buffer.
PairSecond ==
    /\ pairPc = "second"
    /\ pairPc' = "idle"
    /\ CASE pairCall.op = "write" ->
                OccWrite(pairCall.data) /\ UNCHANGED <<m_readPos, oDelivered>>
         [] pairCall.op = "read" ->
                OccRead(pairCall.len) /\ UNCHANGED <<m_buffer, m_writePos>>
         [] pairCall.op = "clear" -> OccClear
         [] pairCall.op = "available" -> OccGetAvailable
    /\ UNCHANGED <<m_capacity, pairCall, bufferVars>>

\* Two Buffers of the same size, from 0 to Capacity bytes, and nothing else
\* in use.
PairInit ==
    /\ QueueInit
    /\ TestIdle
    /\ BufTestIdle
    /\ AppInit
    /\ PlayerInit
    /\ SerialInit
    /\ LineIdle
    /\ LateIdle
    /\ \E size \in 0..Capacity :
           /\ PairIdle(size)
           /\ mBuffer = [i \in 0..(size - 1) |-> 0]
           /\ mCapacity = size
    /\ mHead = 0
    /\ mTail = 0
    /\ mIsFull = FALSE
    /\ bufMutex = NoThread
    /\ bpc = [t \in Threads |-> "idle"]
    /\ bret = 0
    /\ accepted = <<>>
    /\ delivered = <<>>
    /\ lastMove = "none"
    /\ sinceClear = -1

\* One caller making the same calls on both Buffers.
PairNext ==
    \/ \E op \in PairOps : PairLock(op) /\ UNCHANGED nonPairVars
    \/ \E data \in Offers :
           PairFirst("write", data, Len(data)) /\ UNCHANGED nonPairVars
    \/ \E len \in 0..MaxLen :
           PairFirst("read", <<>>, len) /\ UNCHANGED nonPairVars
    \/ PairFirst("clear", <<>>, 0) /\ UNCHANGED nonPairVars
    \/ PairFirst("available", <<>>, 0) /\ UNCHANGED nonPairVars
    \/ PairSecond /\ UNCHANGED nonPairVars

PairSpec == PairInit /\ [][PairNext]_vars

(***************************************************************************)
(* Playback: the controller's playback calls together with what they do    *)
(* to the AudioPlayer, and the audio callback, which the player calls on   *)
(* the caller's thread before the call returns.  A player is the record of *)
(* mState (state), mMusic != nullptr (music), the PlayerState's playback   *)
(* state (playback) and the callbacks made so far (heard).                 *)
(***************************************************************************)

AudioStates == {"IDLE", "LOADED", "PLAYING", "PAUSED", "ERROR", "FINISHED"}

\* onAudioStateChanged that leaves the playback state alone on LOADED.
onAudioStateChangedSkipsLoaded(playback, state) ==
    CASE state = "PLAYING" -> "PLAYING"
      [] state = "PAUSED" -> "PAUSED"
      [] state \in {"IDLE", "ERROR"} -> "STOPPED"
      [] OTHER -> playback

\* void AppController::onAudioStateChanged(state, position): the playback
\* state it leaves.  The switch has no case for FINISHED.
onAudioStateChanged(playback, state) ==
    CASE state = "PLAYING" -> "PLAYING"
      [] state = "PAUSED" -> "PAUSED"
      [] state \in {"IDLE", "LOADED"} -> "STOPPED"
      [] state = "ERROR" -> "STOPPED"
      [] OTHER -> playback

\* void AudioPlayer::notifyCallback(state, positionMs): the callback, if
\* one is set, is the controller's onAudioStateChanged.
notifyCallback(p, state) ==
    IF audioCallback
    THEN LET after == onAudioStateChanged(p.playback, state) IN
             [p EXCEPT !.playback = after,
                       !.heard = Append(@, [state |-> state, playback |-> after])]
    ELSE p

\* void AudioPlayer::stop()
AudioStop(p) ==
    IF ~p.music THEN p
    ELSE IF p.state # "IDLE"
    THEN notifyCallback([p EXCEPT !.state = "LOADED"], "LOADED")
    ELSE p

\* void AudioPlayer::unload()
AudioUnload(p) == [AudioStop(p) EXCEPT !.music = FALSE, !.state = "IDLE"]

\* bool AudioPlayer::load(filePath); loadOk says whether Mix_LoadMUS
\* returns a music.
AudioLoad(p, loadOk) ==
    IF ~audioInitialized THEN p
    ELSE IF ~loadOk THEN [AudioUnload(p) EXCEPT !.state = "ERROR"]
    ELSE notifyCallback([AudioUnload(p) EXCEPT !.music = TRUE, !.state = "LOADED"],
                        "LOADED")

\* void AudioPlayer::play()
AudioPlay(p) ==
    IF ~p.music THEN p
    ELSE notifyCallback([p EXCEPT !.state = "PLAYING"], "PLAYING")

\* void AudioPlayer::pause()
AudioPause(p) ==
    IF ~p.music \/ p.state # "PLAYING" THEN p
    ELSE notifyCallback([p EXCEPT !.state = "PAUSED"], "PAUSED")

\* The player as a call finds it.
ThePlayer == [state |-> audioState, music |-> mMusic,
              playback |-> mPlaybackState, heard |-> <<>>]

\* The player as a call leaves it.
TrackApply(p) ==
    /\ audioState' = p.state
    /\ mMusic' = p.music
    /\ mPlaybackState' = p.playback
    /\ audioHeard' = p.heard

\* What a playback call leaves behind.
TrackRec(op, selected, path, loaded) ==
    [op |-> op, selected |-> selected, path |-> path, loaded |-> loaded,
     index |-> mCurrentTrackIndex, before |-> audioState, music |-> mMusic]

\* bool AppController::initialize(), with AudioPlayer::initialize.
TrackInitialize(audioOk) ==
    /\ AppInitialize(audioOk)
    /\ audioState' = IF mAppState # "UNINITIALIZED" \/ audioInitialized
                     THEN audioState
                     ELSE IF audioOk THEN "IDLE" ELSE "ERROR"
    /\ audioHeard' = <<>>
    /\ trackCall' = TrackRec("initialize", -1, 0, FALSE)
    /\ UNCHANGED <<mMusic, mPlaybackState>>

\* void AppController::shutdown(), with AudioPlayer::shutdown, which drops
\* the callback before it unloads.
TrackShutdown ==
    /\ AppShutdown
    /\ audioState' = IF audioInitialized THEN "IDLE" ELSE audioState
    /\ mMusic' = IF audioInitialized THEN FALSE ELSE mMusic
    /\ audioHeard' = <<>>
    /\ trackCall' = TrackRec("shutdown", -1, 0, FALSE)
    /\ UNCHANGED mPlaybackState

\* void AppController::addToPlaylist(filePath)
TrackAddToPlaylist(track) ==
    /\ AppAddToPlaylist(track)
    /\ audioHeard' = <<>>
    /\ trackCall' = TrackRec("addToPlaylist", -1, 0, FALSE)
    /\ UNCHANGED <<audioState, mMusic, mPlaybackState>>

\* void AppController::clearPlaylist()
TrackClearPlaylist ==
    /\ AppClearPlaylist
    /\ audioHeard' = <<>>
    /\ trackCall' = TrackRec("clearPlaylist", -1, 0, FALSE)
    /\ UNCHANGED <<audioState, mMusic, mPlaybackState>>

\* bool AppController::loadTrack(filePath)
TrackLoadTrack(track, loadOk) ==
    /\ AppLoadTrack(track, loadOk)
    /\ TrackApply(AudioLoad(ThePlayer, loadOk))
    /\ trackCall' = TrackRec("loadTrack", -1, track, audioInitialized /\ loadOk)

\* void AppController::play()
TrackPlay ==
    /\ AppPlay
    /\ TrackApply(AudioPlay(ThePlayer))
    /\ trackCall' = TrackRec("play", -1, 0, FALSE)

\* void AppController::pause()
TrackPause ==
    /\ ClientIdle
    /\ TrackApply(AudioPause(ThePlayer))
    /\ trackCall' = TrackRec("pause", -1, 0, FALSE)
    /\ UNCHANGED appVars

\* void AppController::stop()
TrackStop ==
    /\ ClientIdle
    /\ TrackApply(AudioStop(ThePlayer))
    /\ trackCall' = TrackRec("stop", -1, 0, FALSE)
    /\ UNCHANGED appVars

\* The player after next() or previous() that selected index: loadTrack of
\* the path there and play(), whatever loadTrack returned.
AudioGoTo(index, loadOk) ==
    IF index >= 0 /\ index < Len(mPlaylist)
    THEN AudioPlay(AudioLoad(ThePlayer, loadOk))
    ELSE ThePlayer

\* What next() or previous() that selected index leaves behind.
GoToRec(op, index, loadOk) ==
    IF index >= 0 /\ index < Len(mPlaylist)
    THEN TrackRec(op, index, mPlaylist[index + 1], audioInitialized /\ loadOk)
    ELSE TrackRec(op, index, 0, FALSE)

\* void AppController::next()
TrackNextTrack(loadOk) ==
    /\ AppNextTrack(loadOk)
    /\ TrackApply(AudioGoTo(NextIndex, loadOk))
    /\ trackCall' = GoToRec("next", NextIndex, loadOk)

\* void AppController::previous()
TrackPreviousTrack(loadOk) ==
    /\ AppPreviousTrack(loadOk)
    /\ TrackApply(AudioGoTo(PreviousIndex, loadOk))
    /\ trackCall' = GoToRec("previous", PreviousIndex, loadOk)

\* void AudioPlayer::handleMusicFinished(), which SDL_mixer calls when the
\* music that plays has come to its end.
TrackFinished ==
    /\ ClientIdle
    /\ mMusic
    /\ audioState = "PLAYING"
    /\ TrackApply(notifyCallback([ThePlayer EXCEPT !.state = "FINISHED"],
                                 "FINISHED"))
    /\ trackCall' = TrackRec("finished", -1, 0, FALSE)
    /\ UNCHANGED appVars

\* Everything but the controller, the audio player and the playback state.
nonTrackVars == <<queueVars, testVars, bufferVars, bufTestVars, ppc, pcur,
                  pret, serialVars, lineVars, pairVars, toggleVars, lockVars>>

TrackNext ==
    \/ \E audioOk \in BOOLEAN :
           TrackInitialize(audioOk) /\ UNCHANGED nonTrackVars
    \/ TrackShutdown /\ UNCHANGED nonTrackVars
    \/ \E track \in Tracks :
           TrackAddToPlaylist(track) /\ UNCHANGED nonTrackVars
    \/ TrackClearPlaylist /\ UNCHANGED nonTrackVars
    \/ \E track \in Tracks, loadOk \in BOOLEAN :
           TrackLoadTrack(track, loadOk) /\ UNCHANGED nonTrackVars
    \/ TrackPlay /\ UNCHANGED nonTrackVars
    \/ TrackPause /\ UNCHANGED nonTrackVars
    \/ TrackStop /\ UNCHANGED nonTrackVars
    \/ \E loadOk \in BOOLEAN :
           TrackNextTrack(loadOk) /\ UNCHANGED nonTrackVars
    \/ \E loadOk \in BOOLEAN :
           TrackPreviousTrack(loadOk) /\ UNCHANGED nonTrackVars
    \/ TrackFinished /\ UNCHANGED nonTrackVars

TrackSpec == Init /\ [][TrackNext]_vars

(***************************************************************************)
(* The toggles of the PlayerState: togglePlayPause, toggleMute,            *)
(* cycleRepeatMode and toggleShuffle.  Each is a load of a std::atomic,    *)
(* the computation of the new value from the value loaded, and a store;    *)
(* other threads run between the load and the store.  Every thread calls   *)
(* each toggle at most once.                                               *)
(***************************************************************************)

RepeatModes == {"NONE", "ONE", "ALL"}

\* Thread t is in no operation of the PlayerState and has not called op.
MayToggle(t, op) ==
    /\ ppc[t] = "idle"
    /\ togglePc[t] = "idle"
    /\ op \notin toggleCalls[t]

\* The load of a toggle by thread t: current is the value loaded, at is
\* where the thread goes on.
ToggleLoad(t, op, current, at) ==
    /\ MayToggle(t, op)
    /\ toggleCur' = [toggleCur EXCEPT ![t] = current]
    /\ togglePc' = [togglePc EXCEPT ![t] = at]
    /\ toggleCalls' = [toggleCalls EXCEPT ![t] = @ \cup {op}]

\* The toggle of thread t returns.
ToggleReturn(t) ==
    /\ toggleCur' = [toggleCur EXCEPT ![t] = FALSE]
    /\ togglePc' = [togglePc EXCEPT ![t] = "idle"]
    /\ UNCHANGED toggleCalls

\* bool PlayerState::toggleMute(): bool newState = !mMuted.load() ...
ToggleMuteLoad(t) ==
    /\ ToggleLoad(t, "toggleMute", mMuted, "mute_store")
    /\ UNCHANGED <<mMuted, playerVars, mRepeatMode, mShuffleEnabled>>

\* ... mMuted.store(newState); return newState.
ToggleMuteStore(t) ==
    /\ togglePc[t] = "mute_store"
    /\ mMuted' = ~toggleCur[t]
    /\ ToggleReturn(t)
    /\ UNCHANGED <<playerVars, mRepeatMode, mShuffleEnabled>>

\* bool PlayerState::toggleShuffle(): !mShuffleEnabled.load() ...
ToggleShuffleLoad(t) ==
    /\ ToggleLoad(t, "toggleShuffle", mShuffleEnabled, "shuffle_store")
    /\ UNCHANGED <<mMuted, playerVars, mRepeatMode, mShuffleEnabled>>

\* ... mShuffleEnabled.store(newState); return newState.
ToggleShuffleStore(t) ==
    /\ togglePc[t] = "shuffle_store"
    /\ mShuffleEnabled' = ~toggleCur[t]
    /\ ToggleReturn(t)
    /\ UNCHANGED <<mMuted, playerVars, mRepeatMode>>

\* The switch of cycleRepeatMode.
NextRepeatMode(current) ==
    CASE current = "NONE" -> "ONE"
      [] current = "ONE" -> "ALL"
      [] OTHER -> "NONE"

\* RepeatMode PlayerState::cycleRepeatMode(): mRepeatMode.load() ...
CycleRepeatModeLoad(t) ==
    /\ ToggleLoad(t, "cycleRepeatMode", mRepeatMode, "repeat_store")
    /\ UNCHANGED <<mMuted, playerVars, mRepeatMode, mShuffleEnabled>>

\* ... mRepeatMode.store(newMode); return newMode.
CycleRepeatModeStore(t) ==
    /\ togglePc[t] = "repeat_store"
    /\ mRepeatMode' = NextRepeatMode(toggleCur[t])
    /\ ToggleReturn(t)
    /\ UNCHANGED <<mMuted, playerVars, mShuffleEnabled>>

\* togglePlayPause() called by a thread that has not called it before: its
\* load ...
TogglePlayPauseOnceLoad(t) ==
    /\ MayToggle(t, "togglePlayPause")
    /\ TogglePlayPauseLoad(t)
    /\ toggleCalls' = [toggleCalls EXCEPT ![t] = @ \cup {"togglePlayPause"}]
    /\ UNCHANGED <<mRepeatMode, mShuffleEnabled, togglePc, toggleCur>>

\* ... and its store.
TogglePlayPauseOnceStore(t) ==
    /\ TogglePlayPauseStore(t)
    /\ UNCHANGED toggleVars

\* Everything but the PlayerState's playback state, mute flag, repeat mode
\* and shuffle flag and the threads that toggle them.
nonToggleVars == <<queueVars, testVars, bufferVars, bufTestVars,
                   controllerVars, mVolume, volumeArg, mCurrentTrackIndex,
                   serialVars, lineVars, pairVars, trackVars, lockVars>>

ToggleNext ==
    \/ \E t \in Threads : ToggleMuteLoad(t) /\ UNCHANGED nonToggleVars
    \/ \E t \in Threads : ToggleMuteStore(t) /\ UNCHANGED nonToggleVars
    \/ \E t \in Threads : ToggleShuffleLoad(t) /\ UNCHANGED nonToggleVars
    \/ \E t \in Threads : ToggleShuffleStore(t) /\ UNCHANGED nonToggleVars
    \/ \E t \in Threads : CycleRepeatModeLoad(t) /\ UNCHANGED nonToggleVars
    \/ \E t \in Threads : CycleRepeatModeStore(t) /\ UNCHANGED nonToggleVars
    \/ \E t \in Threads : TogglePlayPauseOnceLoad(t) /\ UNCHANGED nonToggleVars
    \/ \E t \in Threads : TogglePlayPauseOnceStore(t) /\ UNCHANGED nonToggleVars

ToggleSpec == Init /\ [][ToggleNext]_vars

(***************************************************************************)
(* The mutexes of SerialManager, AppController and AudioPlayer.  A         *)
(* function is the sequence of what it does with mutexes, callback members *)
(* and other functions, in the order of its code: lock and unlock a mutex  *)
(* (the scope of a std::lock_guard), copy a callback member into a local,  *)
(* store into a callback member, invoke the local copy, call one of a set  *)
(* of functions (the branches of an if or a switch; "nothing" is the       *)
(* branch that calls none), and return early, which ends the scopes of the *)
(* lock_guards named.  A thread runs one instruction per step; a function  *)
(* returns with its last instruction.                                      *)
(***************************************************************************)

DoLock(m) == [do |-> "lock", arg |-> m]
DoUnlock(m) == [do |-> "unlock", arg |-> m]
DoCopy(c) == [do |-> "copy", arg |-> c]
DoStore(c, vals) == [do |-> "store", arg |-> c, vals |-> vals]
DoInvoke(c) == [do |-> "invoke", arg |-> c]
DoCall(fns) == [do |-> "call", arg |-> fns]
DoReturnIf(ms) == [do |-> "return_if", arg |-> ms]

\* The mutex that protects callback member c.
MutexOf(c) ==
    CASE c \in {"SerialManager::mStateCallback", "SerialManager::mDataCallback"} ->
             "SerialManager::mCallbackMutex"
      [] c = "AppController::mStateCallback" -> "AppController::mCallbackMutex"
      [] OTHER -> "AudioPlayer::mMutex"

\* A notify function that calls the callback before it leaves the scope of
\* its lock_guard.
NotifyBodyCallsLocked(c) ==
    <<DoLock(MutexOf(c)), DoCopy(c), DoInvoke(c), DoUnlock(MutexOf(c))>>

\* SerialManager::notifyStateChange, SerialManager::notifyDataReceived,
\* AppController::notifyStateChange and AudioPlayer::notifyCallback: the
\* member is copied inside the scope of the lock_guard and the copy is
\* called after it.
NotifyBody(c) ==
    <<DoLock(MutexOf(c)), DoCopy(c), DoUnlock(MutexOf(c)), DoInvoke(c)>>

\* The setter of callback member c, storing one of vals.
SetterBody(c, vals) ==
    <<DoLock(MutexOf(c)), DoStore(c, vals), DoUnlock(MutexOf(c))>>

\* The notify function and the setter of callback member c, the setter as
\* a user calls it and as AppController::initialize calls it.
Notifier(c) ==
    CASE c = "SerialManager::mStateCallback" -> "SerialManager::notifyStateChange"
      [] c = "SerialManager::mDataCallback" -> "SerialManager::notifyDataReceived"
      [] c = "AppController::mStateCallback" -> "AppController::notifyStateChange"
      [] OTHER -> "AudioPlayer::notifyCallback"
Setter(c) ==
    CASE c = "SerialManager::mStateCallback" -> "SerialManager::setStateCallback"
      [] c = "SerialManager::mDataCallback" -> "SerialManager::setDataCallback"
      [] c = "AppController::mStateCallback" -> "AppController::setStateCallback"
      [] OTHER -> "AudioPlayer::setCallback"
ControllerSetter(c) == Setter(c) \o "(this)"

\* A callback of the user stored in member c, and the lambda that
\* AppController::initialize stores there.
UserCallback(c) == "user callback in " \o c
ControllerCallback(c) ==
    CASE c = "SerialManager::mStateCallback" -> "AppController::onSerialStateChanged"
      [] c = "SerialManager::mDataCallback" -> "AppController::onSerialDataReceived"
      [] OTHER -> "AppController::onAudioStateChanged"

\* The members AppController::initialize stores its lambdas in.
ControllerMembers == CallbackMembers \ {"AppController::mStateCallback"}

\* The scope of a lock_guard on the playlist mutex with nothing but
\* accesses to mPlaylist and the atomics of the PlayerState inside.
PlaylistScope ==
    <<DoLock("AppController::mPlaylistMutex"),
      DoUnlock("AppController::mPlaylistMutex")>>

\* next() and previous(): the scope of the lock_guard is left by the return
\* on an empty playlist or at its end, getCurrentTrackIndex() is called
\* inside it, loadTrack() and play() after it.
GoToBody ==
    <<DoLock("AppController::mPlaylistMutex"),
      DoReturnIf({"AppController::mPlaylistMutex"}),
      DoCall({"AppController::getCurrentTrackIndex"}),
      DoUnlock("AppController::mPlaylistMutex"),
      DoReturnIf({}),
      DoCall({"AppController::loadTrack"}),
      DoCall({"AppController::play"})>>

\* A function of AudioPlayer that changes mState inside the scope of a
\* lock_guard on mMutex, returns from inside it if there is nothing to do,
\* and notifies after it.
AudioBody ==
    <<DoLock("AudioPlayer::mMutex"),
      DoReturnIf({"AudioPlayer::mMutex"}),
      DoUnlock("AudioPlayer::mMutex"),
      DoCall({"AudioPlayer::notifyCallback"})>>

\* What function fn does.
Body(fn) ==
    CASE \E c \in CallbackMembers : fn = Notifier(c) ->
             NotifyBody(CHOOSE c \in CallbackMembers : fn = Notifier(c))
      [] \E c \in CallbackMembers : fn = Setter(c) ->
             SetterBody(CHOOSE c \in CallbackMembers : fn = Setter(c),
                        {"none", "user"})
      [] \E c \in ControllerMembers : fn = ControllerSetter(c) ->
             SetterBody(CHOOSE c \in ControllerMembers : fn = ControllerSetter(c),
                        {"controller"})
      [] \E c \in CallbackMembers : fn = UserCallback(c) ->
             <<DoCall({Setter(CHOOSE c \in CallbackMembers : fn = UserCallback(c)),
                       "getState"})>>
      [] fn = "SerialManager::disconnect" ->
             <<DoReturnIf({}), DoCall({"SerialManager::notifyStateChange"})>>
      [] fn = "AudioPlayer::handleMusicFinished" ->
             <<DoCall({"AudioPlayer::notifyCallback"})>>
      [] fn = "AudioPlayer::shutdown" ->
             <<DoReturnIf({}), DoLock("AudioPlayer::mMutex"),
               DoStore("AudioPlayer::mCallback", {"none"}),
               DoUnlock("AudioPlayer::mMutex"), DoCall({"AudioPlayer::unload"})>>
      [] fn = "AudioPlayer::load" ->
             <<DoReturnIf({}), DoCall({"AudioPlayer::unload"}),
               DoLock("AudioPlayer::mMutex"), DoReturnIf({"AudioPlayer::mMutex"}),
               DoUnlock("AudioPlayer::mMutex"),
               DoCall({"AudioPlayer::notifyCallback"})>>
      [] fn = "AudioPlayer::unload" ->
             <<DoCall({"AudioPlayer::stop"}), DoLock("AudioPlayer::mMutex"),
               DoUnlock("AudioPlayer::mMutex")>>
      [] fn = "AudioPlayer::play" -> AudioBody
      [] fn = "AudioPlayer::pause" -> AudioBody
      [] fn = "AudioPlayer::stop" ->
             <<DoLock("AudioPlayer::mMutex"), DoReturnIf({"AudioPlayer::mMutex"}),
               DoUnlock("AudioPlayer::mMutex"),
               DoCall({"AudioPlayer::notifyCallback", "nothing"})>>
      [] fn = "AppController::onSerialDataReceived" ->
             <<DoCall({"AppController::play", "AppController::pause",
                       "AppController::stop", "AppController::next",
                       "AppController::previous", "AppController::loadTrack",
                       "AppController::sendStatusToBoard", "nothing"})>>
      [] fn = "AppController::onSerialStateChanged" ->
             <<DoCall({"AppController::notifyStateChange", "nothing"}),
               DoCall({"AppController::sendStatusToBoard", "nothing"})>>
      [] fn = "AppController::onAudioStateChanged" ->
             <<DoCall({"AppController::sendStatusToBoard"})>>
      [] fn = "AppController::sendStatusToBoard" ->
             <<DoReturnIf({}), DoCall({"AppController::getCurrentTrackIndex"})>>
      [] fn = "AppController::initialize" ->
             <<DoReturnIf({}),
               DoCall({ControllerSetter("AudioPlayer::mCallback")}),
               DoCall({ControllerSetter("SerialManager::mDataCallback")}),
               DoCall({ControllerSetter("SerialManager::mStateCallback")}),
               DoCall({"AppController::notifyStateChange"})>>
      [] fn = "AppController::shutdown" ->
             <<DoCall({"SerialManager::disconnect"}),
               DoCall({"AudioPlayer::shutdown"}),
               DoCall({"AppController::clearPlaylist"}),
               DoLock("AppController::mCallbackMutex"),
               DoStore("AppController::mStateCallback", {"none"}),
               DoUnlock("AppController::mCallbackMutex")>>
      [] fn = "AppController::loadTrack" ->
             <<DoCall({"AudioPlayer::load"}), DoReturnIf({}),
               DoLock("AppController::mPlaylistMutex"),
               DoUnlock("AppController::mPlaylistMutex")>>
      [] fn = "AppController::play" -> <<DoCall({"AudioPlayer::play"})>>
      [] fn = "AppController::pause" -> <<DoCall({"AudioPlayer::pause"})>>
      [] fn = "AppController::stop" -> <<DoCall({"AudioPlayer::stop"})>>
      [] fn = "AppController::next" -> GoToBody
      [] fn = "AppController::previous" -> GoToBody
      [] fn = "AppController::addToPlaylist" -> PlaylistScope
      [] fn = "AppController::clearPlaylist" -> PlaylistScope
      [] fn = "AppController::getPlaylistSize" -> PlaylistScope
      [] OTHER -> <<>>

\* The functions of the three classes that take part, "getState" for the
\* getters that read a std::atomic, and "nothing".
Functions ==
    {Notifier(c) : c \in CallbackMembers} \cup
    {Setter(c) : c \in CallbackMembers} \cup
    {UserCallback(c) : c \in CallbackMembers} \cup
    {ControllerSetter(c) : c \in ControllerMembers} \cup
    {ControllerCallback(c) : c \in ControllerMembers} \cup
    {"SerialManager::disconnect", "AudioPlayer::handleMusicFinished",
     "AudioPlayer::shutdown", "AudioPlayer::load", "AudioPlayer::unload",
     "AudioPlayer::play", "AudioPlayer::pause", "AudioPlayer::stop",
     "AppController::sendStatusToBoard", "AppController::getCurrentTrackIndex",
     "AppController::initialize", "AppController::shutdown",
     "AppController::loadTrack", "AppController::play", "AppController::pause",
     "AppController::stop", "AppController::next", "AppController::previous",
     "AppController::addToPlaylist", "AppController::clearPlaylist",
     "AppController::getPlaylistSize", "getState", "nothing"}

\* What each function does.
Bodies == [fn \in Functions |-> Body(fn)]

\* The functions a thread calls from outside: the setters, the notify
\* functions SerialManager::connect and readThreadFunc call,
\* handleMusicFinished, which SDL_mixer calls, and the public functions of
\* the controller.  Its play, pause, stop, previous and loadTrack are
\* called by next() and by onSerialDataReceived, which runs on the thread
\* of notifyDataReceived.
EntryPoints ==
    {Setter(c) : c \in CallbackMembers} \cup
    {"SerialManager::notifyStateChange", "SerialManager::notifyDataReceived",
     "SerialManager::disconnect", "AudioPlayer::handleMusicFinished",
     "AppController::initialize", "AppController::shutdown",
     "AppController::next", "AppController::addToPlaylist",
     "AppController::clearPlaylist", "AppController::getPlaylistSize"}

\* A call of fn that has run none of its instructions; cb is its local
\* copy of a callback.
Frame(fn) == [fn |-> fn, ip |-> 1, cb |-> "none"]

\* The innermost call of thread t and the instruction it is at.
Top(t) == callStack[t][Len(callStack[t])]
Instr(t) == Bodies[Top(t).fn][Top(t).ip]

\* Thread t is at an instruction of kind do.
AtInstr(t, do) ==
    /\ callStack[t] # <<>>
    /\ Top(t).ip <= Len(Bodies[Top(t).fn])
    /\ Instr(t).do = do

\* The stack without the innermost call.
Pop(stack) == SubSeq(stack, 1, Len(stack) - 1)

\* The stack once every call that has run its last instruction has
\* returned.
RECURSIVE Settle(_)
Settle(stack) ==
    IF stack = <<>> THEN stack
    ELSE IF stack[Len(stack)].ip > Len(Bodies[stack[Len(stack)].fn])
    THEN Settle(Pop(stack))
    ELSE stack

\* The stack with the innermost call one instruction further, ...
Step(stack) == [stack EXCEPT ![Len(stack)].ip = @ + 1]

\* ... with that and nothing else done, ...
Advance(stack) == Settle(Step(stack))

\* ... and with fn called there.
Enter(stack, fn) == Settle(Append(Step(stack), Frame(fn)))

\* The entry points that neither notify nor call further: the setters
\* and getPlaylistSize.
PlainEntryPoints ==
    {Setter(c) : c \in CallbackMembers} \cup {"AppController::getPlaylistSize"}

\* Thread t is in no call, or in one of the plain ones.
Plain(t) ==
    IF callStack[t] = <<>> THEN TRUE
    ELSE callStack[t][1].fn \in PlainEntryPoints

\* A thread that is in no call calls fn.  One thread at a time is inside a
\* call that notifies; the others set callbacks and use the playlist
\* meanwhile.
CallEnter(t, fn) ==
    /\ callStack[t] = <<>>
    /\ fn \in PlainEntryPoints \/ \A u \in Threads \ {t} : Plain(u)
    /\ callStack' = [callStack EXCEPT ![t] = Settle(<<Frame(fn)>>)]
    /\ UNCHANGED <<mutexHolder, callbacks>>

\* std::lock_guard<std::mutex> lock(m): the thread waits until m is free.
\* A thread that holds m itself waits for ever.
ExecLock(t) ==
    /\ AtInstr(t, "lock")
    /\ mutexHolder[Instr(t).arg] = NoThread
    /\ mutexHolder' = [mutexHolder EXCEPT ![Instr(t).arg] = t]
    /\ callStack' = [callStack EXCEPT ![t] = Advance(@)]
    /\ UNCHANGED callbacks

\* The end of the scope of the lock_guard.
ExecUnlock(t) ==
    /\ AtInstr(t, "unlock")
    /\ mutexHolder' = [mutexHolder EXCEPT ![Instr(t).arg] = NoThread]
    /\ callStack' = [callStack EXCEPT ![t] = Advance(@)]
    /\ UNCHANGED callbacks

\* cb = mCallback;
ExecCopy(t) ==
    /\ AtInstr(t, "copy")
    /\ callStack' = [callStack EXCEPT
           ![t] = Advance([@ EXCEPT ![Len(@)].cb = callbacks[Instr(t).arg]])]
    /\ UNCHANGED <<mutexHolder, callbacks>>

\* mCallback = callback;
ExecStore(t, val) ==
    /\ AtInstr(t, "store")
    /\ val \in Instr(t).vals
    /\ callbacks' = [callbacks EXCEPT ![Instr(t).arg] = val]
    /\ callStack' = [callStack EXCEPT ![t] = Advance(@)]
    /\ UNCHANGED mutexHolder

\* if (cb) { cb(...); }
ExecInvoke(t) ==
    /\ AtInstr(t, "invoke")
    /\ callStack' = [callStack EXCEPT ![t] =
           CASE Top(t).cb = "user" -> Enter(@, UserCallback(Instr(t).arg))
             [] Top(t).cb = "controller" ->
                    Enter(@, ControllerCallback(Instr(t).arg))
             [] OTHER -> Advance(@)]
    /\ UNCHANGED <<mutexHolder, callbacks>>

\* A call of fn, one of the functions the instruction names.
ExecCall(t, fn) ==
    /\ AtInstr(t, "call")
    /\ fn \in Instr(t).arg
    /\ callStack' = [callStack EXCEPT ![t] = Enter(@, fn)]
    /\ UNCHANGED <<mutexHolder, callbacks>>

\* An early return, taken (leave) or not.
ExecReturnIf(t, leave) ==
    /\ AtInstr(t, "return_if")
    /\ IF leave
       THEN /\ callStack' = [callStack EXCEPT ![t] = Settle(Pop(@))]
            /\ mutexHolder' = [m \in Mutexes |->
                   IF m \in Instr(t).arg THEN NoThread ELSE mutexHolder[m]]
       ELSE /\ callStack' = [callStack EXCEPT ![t] = Advance(@)]
            /\ UNCHANGED mutexHolder
    /\ UNCHANGED callbacks

\* Everything but the mutexes, the callback members and the calls.
nonLockVars == <<queueVars, testVars, bufferVars, bufTestVars, appVars,
                 playerVars, serialVars, lineVars, pairVars, trackVars,
                 toggleVars>>

LockNext ==
    \/ \E t \in Threads, fn \in EntryPoints :
           CallEnter(t, fn) /\ UNCHANGED nonLockVars
    \/ \E t \in Threads : ExecLock(t) /\ UNCHANGED nonLockVars
    \/ \E t \in Threads : ExecUnlock(t) /\ UNCHANGED nonLockVars
    \/ \E t \in Threads : ExecCopy(t) /\ UNCHANGED nonLockVars
    \/ \E t \in Threads, val \in {"none", "user", "controller"} :
           ExecStore(t, val) /\ UNCHANGED nonLockVars
    \/ \E t \in Threads : ExecInvoke(t) /\ UNCHANGED nonLockVars
    \/ \E t \in Threads :
           \E fn \in (IF AtInstr(t, "call") THEN Instr(t).arg ELSE {}) :
               ExecCall(t, fn) /\ UNCHANGED nonLockVars
    \/ \E t \in Threads, leave \in BOOLEAN :
           ExecReturnIf(t, leave) /\ UNCHANGED nonLockVars

LockSpec == Init /\ [][LockNext]_vars

(***************************************************************************)
(* Properties of the controller's lifecycle.                               *)
(***************************************************************************)

\* C19: getState() is UNINITIALIZED as long as nothing was called and
\* whenever the last call was shutdown(); an initialize() during which the
\* audio player initialized returned true and left READY; an initialize()
\* that found the controller in another state than UNINITIALIZED returned
\* true and left the state as it was.
C19_Lifecycle ==
    /\ lastCall.op = "none" => mAppState = "UNINITIALIZED"
    /\ lastCall.op = "shutdown" => mAppState = "UNINITIALIZED"
    /\ (lastCall.op = "initialize" /\ lastCall.audio = "ok")
           => lastCall.ret = TRUE /\ lastCall.post = "READY"
    /\ (lastCall.op = "initialize" /\ lastCall.pre # "UNINITIALIZED")
           => lastCall.ret = TRUE /\ lastCall.post = lastCall.pre

\* C20: whenever initialize() returned true, the audio player was
\* initialized and the audio and serial callbacks were registered when it
\* returned; whenever the audio player failed to initialize during the
\* call, it returned false and left ERROR.
C20_TrueMeansInitialized ==
    /\ (lastCall.op = "initialize" /\ lastCall.ret = TRUE) => lastCall.ready
    /\ (lastCall.op = "initialize" /\ lastCall.audio = "failed")
           => lastCall.ret = FALSE /\ lastCall.post = "ERROR"

(***************************************************************************)
(* Properties of the controller's reaction to the serial manager.          *)
(***************************************************************************)

\* bool AppController::isConnectedToBoard()
isConnectedToBoard == serialState = "CONNECTED"

\* A thread is between the store of a new SerialState and the end of the
\* state callback that reports it.
InSerialCallback == appPc # "idle" \/ readerPc \in {"report", "notify"}

\* C21: a connectToBoard() on a controller that was READY or RUNNING which
\* has returned true, the serial manager having reported CONNECTED, left
\* RUNNING; a
\* disconnectFromBoard() that closed the port of a RUNNING controller, and a
\* connectToBoard() that reported ERROR to one, left READY; and whenever no
\* thread is inside a serial state callback, getState() == RUNNING implies
\* isConnectedToBoard().
C21_RunningWhileConnected ==
    /\ (/\ lastCall.op = "connectToBoard"
        /\ ~Terminated /\ appPc = "idle"
        /\ lastCall.ret = TRUE
        /\ lastCall.pre \in {"READY", "RUNNING"})
           => lastCall.post = "RUNNING"
    /\ (/\ lastCall.op = "disconnectFromBoard"
        /\ lastCall.serialPre = "CONNECTED"
        /\ lastCall.pre = "RUNNING")
           => lastCall.post = "READY"
    /\ (/\ lastCall.op = "connectToBoard"
        /\ ~Terminated /\ appPc = "idle"
        /\ lastCall.ret = FALSE
        /\ lastCall.pre = "RUNNING")
           => lastCall.post = "READY"
    /\ (~Terminated /\ ~InSerialCallback /\ mAppState = "RUNNING")
           => isConnectedToBoard

(***************************************************************************)
(* Properties of the playlist.                                             *)
(***************************************************************************)

\* int AppController::getCurrentTrackIndex()
getCurrentTrackIndex == mCurrentTrackIndex

\* size_t AppController::getPlaylistSize()
getPlaylistSize == Len(mPlaylist)

\* C29: whatever the client has called, the current track index is -1
\* exactly if the playlist is empty and otherwise an index of the playlist;
\* after the addToPlaylist that added the first track it is 0, and after
\* clearPlaylist it is -1.
C29_TrackIndexInPlaylist ==
    /\ getCurrentTrackIndex = -1 <=> getPlaylistSize = 0
    /\ getPlaylistSize > 0 => getCurrentTrackIndex \in 0..(getPlaylistSize - 1)
    /\ (lastCall.op = "addToPlaylist" /\ getPlaylistSize = 1)
           => getCurrentTrackIndex = 0
    /\ lastCall.op = "clearPlaylist" => getCurrentTrackIndex = -1

\* previous() on the first track has wrapped to the last one.
C29_Witness ==
    /\ lastCall.op = "previous"
    /\ getPlaylistSize = MaxTracks
    /\ getCurrentTrackIndex = getPlaylistSize - 1
    /\ mPlaylist[1] # mPlaylist[getPlaylistSize]

(***************************************************************************)
(* Properties of the volume.                                               *)
(***************************************************************************)

\* C22: after initialize() and whatever setVolume, toggleMute and play
\* calls followed, the audio player's volume is 0 if the player state is
\* muted and PlayerState::getVolume() if it is not.
C22_AudioVolumeFollowsMute ==
    /\ mMuted => audioVolume = 0
    /\ ~mMuted => audioVolume = mVolume

\* A volume was set while muted: it is stored, and the audio player is
\* still silent.
C22_Witness ==
    /\ lastCall.op = "setVolume"
    /\ mMuted
    /\ mVolume # DefaultVolume
    /\ mVolume > 0
    /\ audioVolume = 0

\* int PlayerState::getVolume()
getVolume == mVolume

\* C23: getVolume() is within [0, 100] whatever threads called setVolume
\* and reset and however their steps interleaved, and as long as no reset
\* has stored the volume since, it is the argument of the last
\* PlayerState::setVolume or AppController::setVolume, brought into
\* [0, 100].
C23_VolumeClamped ==
    /\ getVolume \in 0..100
    /\ volumeArg # <<>> =>
           getVolume = IF volumeArg[1] < 0 THEN 0
                       ELSE IF volumeArg[1] > 100 THEN 100
                       ELSE volumeArg[1]

\* A volume above the range was stored as 100 while another thread is in
\* reset() and about to store the volume.
C23_Witness ==
    /\ volumeArg # <<>>
    /\ volumeArg[1] > 100
    /\ getVolume = 100
    /\ \E t \in Threads : ppc[t] = "reset_volume"

(***************************************************************************)
(* Properties of the playback state.                                       *)
(***************************************************************************)

\* C30: the playback state is always one of STOPPED, PLAYING, PAUSED; a
\* togglePlayPause() stores PAUSED if it loaded PLAYING and PLAYING if it
\* loaded STOPPED or PAUSED, which is a move from the state the player is
\* in when no other thread stored in between, and it returns what it
\* stored.
C30_TogglePlayPause ==
    /\ [](mPlaybackState \in PlaybackStates)
    /\ [][\A t \in Threads :
             (ppc[t] = "toggle_store" /\ ppc'[t] = "idle") =>
                 /\ pcur[t] = "PLAYING" => mPlaybackState' = "PAUSED"
                 /\ pcur[t] \in {"STOPPED", "PAUSED"} => mPlaybackState' = "PLAYING"
                 /\ pret' = mPlaybackState']_vars

\* A togglePlayPause() has paused and returned PAUSED while another thread
\* is between the load and the store of its own togglePlayPause().
C30_Witness ==
    /\ pret = "PAUSED"
    /\ mPlaybackState = "PAUSED"
    /\ \E t \in Threads : ppc[t] = "toggle_store" /\ pcur[t] = "PLAYING"

(***************************************************************************)
(* Properties of the serial manager.                                       *)
(***************************************************************************)
\* SerialState SerialManager::getState() const
getSerialState == mState

\* std::string SerialManager::getPortName() const
getPortName == mPortName

\* uint32_t SerialManager::getBaudRate() const
getBaudRate == mBaudRate

\* The callback heard CONNECTING and, later, ERROR.
HeardConnectingThenError ==
    \E i \in 1..Len(heard) : \E j \in (i + 1)..Len(heard) :
        heard[i] = "CONNECTING" /\ heard[j] = "ERROR"

\* C24: after a connect() that failed to open or to configure the port has
\* returned, it has returned false, getState() is ERROR, isConnected() is
\* false, the call started no read thread and none runs, and a state
\* callback that was registered during the call has heard CONNECTING and
\* after it ERROR.
C24_FailedConnect ==
    (spc = "idle" /\ sret.op = "connect" /\ ~sret.val) =>
        /\ getSerialState = "ERROR"
        /\ ~isConnected
        /\ ~sret.started
        /\ mReadThread # "run"
        /\ sret.callback => HeardConnectingThenError

\* A connect() with a baud rate that cannot be configured has failed on a
\* manager that was connected: the callback heard DISCONNECTED, CONNECTING
\* and ERROR, and the descriptor that was opened is closed again.
C24_Witness ==
    /\ spc = "idle"
    /\ sret.op = "connect"
    /\ ~sret.val
    /\ connectArgs.baudRate \notin SupportedBaudRates
    /\ sret.callback
    /\ heard = <<"DISCONNECTED", "CONNECTING", "ERROR">>
    /\ openFds = 0

\* C25: a send, sendBytes or read on a manager that is not connected
\* returns -1, a readLine the empty string, an available 0; these calls,
\* flush and disconnect change neither the state nor the port name nor the
\* baud rate, and flush and disconnect change nothing else of the manager
\* and report nothing.
C25_NotConnectedCalls ==
    [][(spc = "idle" /\ ~isConnected) =>
           /\ \A op \in IoOps : \A outcome \in IoOutcomes(op) :
                  SerialIo(op, outcome) =>
                      /\ op \in {"send", "sendBytes", "read"} => sret'.val = -1
                      /\ op = "readLine" => sret'.val = ""
                      /\ op = "available" => sret'.val = 0
                      /\ UNCHANGED <<mState, mPortName, mBaudRate,
                                     mFileDescriptor, mRunning, mReadThread,
                                     openFds>>
           /\ SerialDisconnect =>
                  /\ spc' = "idle"
                  /\ heard' = <<>>
                  /\ UNCHANGED <<mState, mPortName, mBaudRate,
                                 mFileDescriptor, mRunning, mReadThread,
                                 openFds>>]_vars

\* A send has returned -1 on a manager whose read thread failed: the state
\* is ERROR while the descriptor is still open.
C25_Witness ==
    /\ spc = "idle"
    /\ sret.op = "send"
    /\ sret.val = -1
    /\ mState = "ERROR"
    /\ mFileDescriptor >= 0

\* C26: between the client's calls, getPortName() is empty and
\* getBaudRate() is 0 whenever isConnected() is false, and they are the
\* arguments of the connect() called last whenever it is true.
C26_PortConfiguration ==
    spc = "idle" =>
        /\ ~isConnected => (getPortName = "" /\ getBaudRate = 0)
        /\ isConnected => /\ getPortName = connectArgs.portName
                          /\ getBaudRate = connectArgs.baudRate

\* C28: after disconnect() has returned, mReadThread is not joinable, so no
\* read thread runs, and the descriptor is closed; and connect() never
\* assigns a new thread to mReadThread while it is joinable.
C28_DisconnectStopsThread ==
    /\ (spc = "idle" /\ sret.op = "disconnect") =>
           (~Joinable /\ mFileDescriptor = -1 /\ openFds = 0)
    /\ ~SerialTerminated

(***************************************************************************)
(* Properties of the lines the read thread hands on.                       *)
(***************************************************************************)
\* The places of the newlines in a stream.
Newlines(stream) == {i \in 1..Len(stream) : stream[i] = LF}

\* The line that the newline at place p of a stream terminates: the bytes
\* after the newline before it, or from the start, without the '\n' and
\* without one '\r' before it.
LineEndingAt(stream, p) ==
    LET before == {q \in Newlines(stream) : q < p}
        first == IF before = {} THEN 1
                 ELSE 1 + CHOOSE q \in before : \A r \in before : r <= q
        last == IF p > first /\ stream[p - 1] = CR THEN p - 2 ELSE p - 1
    IN SubSeq(stream, first, last)

\* The non-empty lines of a stream, in the order of their newlines.
RECURSIVE LinesUpTo(_, _)
LinesUpTo(stream, p) ==
    IF p = 0 THEN <<>>
    ELSE IF stream[p] = LF /\ LineEndingAt(stream, p) # <<>>
        THEN Append(LinesUpTo(stream, p - 1), LineEndingAt(stream, p))
        ELSE LinesUpTo(stream, p - 1)

\* The bytes of a stream after its last newline.
Unterminated(stream) ==
    LET nl == Newlines(stream)
        from == IF nl = {} THEN 1
                ELSE 1 + CHOOSE q \in nl : \A r \in nl : r <= q
    IN SubSeq(stream, from, Len(stream))

\* C27: whatever the cuts between the ::read() calls, the data callback has
\* been called once for each newline-terminated line of the bytes read so
\* far that is not empty without its '\n' and one '\r' before it, with
\* that line, in the order of arrival; and lineBuffer holds the bytes read
\* after the last newline.
C27_LinesDelivered ==
    /\ linesNotified = LinesUpTo(streamRead, Len(streamRead))
    /\ lineBuffer = Unterminated(streamRead)

\* The thread has read "a\r\n" and the "b" of a second line whose newline
\* no ::read() has returned yet: the callback got "a" once, and "b" waits
\* in lineBuffer.
C27_Witness ==
    /\ streamRead = <<"a", CR, LF, "b">>
    /\ linesNotified = << <<"a">> >>
    /\ lineBuffer = <<"b">>
    /\ pending = <<LF>>

(***************************************************************************)
(* Properties of the two Buffers.                                          *)
(***************************************************************************)
\* C31: after every call that the caller has made on both Buffers with the
\* same arguments, both have returned the same count, both have delivered
\* the same bytes since the last clear, and both report the same number of
\* available bytes.
C31_BuffersEquivalent ==
    pairPc = "idle" /\ bpc[PairCaller] = "idle" =>
        /\ pairCall.op \in {"write", "read", "available"} => bret = oret
        /\ delivered = oDelivered
        /\ available = m_dataAvailable

\* Both Buffers of three bytes have been written around the end of their
\* storage and read there: the last call was a read of two bytes that both
\* took from the last and the first place.
C31_Witness ==
    /\ pairPc = "idle"
    /\ pairCall.op = "read"
    /\ m_capacity = 3
    /\ oret = 2
    /\ m_readPos = 1
    /\ mTail = 1
    /\ Len(oDelivered) = 4
    /\ oDelivered[3] # oDelivered[4]

\* C35: with capacity 0, no call takes an index modulo the capacity, every
\* write and every read returns 0, and available() and capacity() are 0.
C35_CapacityZero ==
    (mCapacity = 0 /\ m_capacity = 0) =>
        /\ ~modZero
        /\ (pairPc = "second" /\ pairCall.op \in {"write", "read"}) => bret = 0
        /\ (pairPc = "idle" /\ pairCall.op \in {"write", "read"}) =>
               (bret = 0 /\ oret = 0)
        /\ available = 0
        /\ capacity = 0
        /\ m_dataAvailable = 0

\* Both Buffers of capacity 0 have been asked to write two bytes.
C35_Witness ==
    /\ mCapacity = 0
    /\ m_capacity = 0
    /\ pairPc = "idle"
    /\ pairCall.op = "write"
    /\ Len(pairCall.data) = 2
    /\ oret = 0

\* C32: with a capacity of at least 1, both cursors of the Buffer with the
\* full flag are in 0..capacity-1, the full flag is set only while the
\* cursors are equal, and what getAvailableInternal computes is the number
\* of bytes accepted less the number of bytes read since the construction
\* or the last clear.
C32_CursorsAndFullFlag ==
    mCapacity >= 1 =>
        /\ mHead \in 0..(mCapacity - 1)
        /\ mTail \in 0..(mCapacity - 1)
        /\ mIsFull => mHead = mTail
        /\ getAvailableInternal = Len(accepted) - Len(delivered)

\* The Buffer is full with both cursors past the start of the storage,
\* after bytes were read, while a thread is inside a call.
C32_Witness ==
    /\ mIsFull
    /\ mHead = mTail
    /\ mHead > 0
    /\ delivered # <<>>
    /\ \E t \in Threads : bpc[t] \in BufCsPcs

\* C33: a write or a read that returns 0 leaves everything of its Buffer as
\* it was: the storage, the cursors and the full flag of the one, the
\* storage, the positions and the count of the other.
C33_ZeroReturnChangesNothing ==
    /\ [][(/\ pairPc = "idle"
           /\ pairPc' = "second"
           /\ pairCall'.op \in {"write", "read"}
           /\ bret' = 0)
          => UNCHANGED <<mBuffer, mHead, mTail, mIsFull, mCapacity>>]_vars
    /\ [][(/\ pairPc = "second"
           /\ pairPc' = "idle"
           /\ pairCall.op \in {"write", "read"}
           /\ oret' = 0)
          => UNCHANGED <<m_buffer, m_readPos, m_writePos, m_dataAvailable,
                         m_capacity>>]_vars

\* A read of length 0 has returned from both Buffers, which were full with
\* their cursors past the start of the storage, and both are still full.
C33_Witness ==
    /\ pairPc = "idle"
    /\ pairCall.op = "read"
    /\ pairCall.len = 0
    /\ bret = 0
    /\ oret = 0
    /\ mCapacity > 0
    /\ mIsFull
    /\ mHead # 0
    /\ m_dataAvailable = m_capacity

WentToTrack == trackCall.op \in {"next", "previous"}

\* C36: with a playlist of n >= 1 tracks and current index i, next() hands
\* the path at (i + 1) mod n to loadTrack and previous() the path at i - 1,
\* or at n - 1 when i is 0 or -1; after a load that succeeded the current
\* track index is the index that was selected and playback is started; on
\* an empty playlist neither call changes anything.
C36_NextAndPrevious ==
    WentToTrack =>
        LET n == Len(mPlaylist)
            i == trackCall.index
        IN  IF n = 0
            THEN /\ trackCall.path = 0
                 /\ audioHeard = <<>>
                 /\ mCurrentTrackIndex = i
                 /\ audioState = trackCall.before
                 /\ mMusic = trackCall.music
            ELSE /\ trackCall.op = "next" => trackCall.selected = (i + 1) % n
                 /\ trackCall.op = "previous" =>
                        trackCall.selected = IF i \in {0, -1} THEN n - 1 ELSE i - 1
                 /\ trackCall.path = mPlaylist[trackCall.selected + 1]
                 /\ trackCall.loaded =>
                        /\ mCurrentTrackIndex = trackCall.selected
                        /\ audioState = "PLAYING"
                        /\ mPlaybackState = "PLAYING"

\* What C37 says the playback state is after a callback with state.
PlaybackFor(state) ==
    CASE state = "PLAYING" -> {"PLAYING"}
      [] state = "PAUSED" -> {"PAUSED"}
      [] state \in {"IDLE", "LOADED", "ERROR"} -> {"STOPPED"}
      [] OTHER -> PlaybackStates

Callers(op) == Cardinality({t \in Threads : op \in toggleCalls[t]})

\* Every call of a toggle has returned.
TogglesReturned ==
    \A t \in Threads : ppc[t] = "idle" /\ togglePc[t] = "idle"

\* The state k sequential calls of the toggle leave on a new PlayerState.
MutedAfter(k) == k % 2 = 1
RepeatModeAfter(k) ==
    CASE k % 3 = 0 -> "NONE"
      [] k % 3 = 1 -> "ONE"
      [] OTHER -> "ALL"
PlaybackAfter(k) ==
    IF k = 0 THEN "STOPPED" ELSE IF k % 2 = 1 THEN "PLAYING" ELSE "PAUSED"

\* C38: when k threads have each called toggleMute() once, concurrently,
\* and all calls have returned, the mute flag is what k calls one after the
\* other leave; likewise for toggleShuffle, togglePlayPause and
\* cycleRepeatMode.
C38_TogglesAtomic ==
    TogglesReturned =>
        /\ mMuted = MutedAfter(Callers("toggleMute"))
        /\ mShuffleEnabled = MutedAfter(Callers("toggleShuffle"))
        /\ mPlaybackState = PlaybackAfter(Callers("togglePlayPause"))
        /\ mRepeatMode = RepeatModeAfter(Callers("cycleRepeatMode"))

(***************************************************************************)
(* Properties of the mutexes.                                              *)
(***************************************************************************)

\* Thread t is inside a callback of the user stored in member c.
InUserCallback(t, c) ==
    \E k \in 1..Len(callStack[t]) : callStack[t][k].fn = UserCallback(c)

\* C39: a thread that invokes a callback of SerialManager, AppController or
\* AudioPlayer does not hold the mutex that protects the callback member;
\* no thread, in particular none inside a callback that re-enters the
\* object, comes to lock a mutex it holds itself, so none waits for
\* itself; and the playlist mutex is never locked by its holder.
C39_CallbacksOutsideLock ==
    \A t \in Threads :
        /\ AtInstr(t, "invoke") => mutexHolder[MutexOf(Instr(t).arg)] # t
        /\ AtInstr(t, "lock") => mutexHolder[Instr(t).arg] # t
        /\ \A c \in CallbackMembers :
               InUserCallback(t, c) /\ Top(t).fn = UserCallback(c) =>
                   mutexHolder[MutexOf(c)] # t

\* A callback of the user, called by AudioPlayer::notifyCallback inside
\* the controller's next(), has called setCallback and is inside the scope
\* of its lock_guard, while another thread holds the playlist mutex.
C39_Witness ==
    \E t, u \in Threads :
        /\ callStack[t] # <<>>
        /\ callStack[t][1].fn = "AppController::next"
        /\ InUserCallback(t, "AudioPlayer::mCallback")
        /\ Top(t).fn = "AudioPlayer::setCallback"
        /\ AtInstr(t, "store")
        /\ mutexHolder["AudioPlayer::mMutex"] = t
        /\ mutexHolder["AppController::mPlaylistMutex"] = u
====
